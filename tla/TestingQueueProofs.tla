------------------------- MODULE TestingQueueProofs -------------------------
(***************************************************************************)
(* A packet of the testing queue and its executable have one name, and the *)
(* status of its run follows it, for every number of packets and servers,  *)
(* every range of priorities, and both kinds of servers.                   *)
(*                                                                         *)
(* Held carries the executable through every place from which the packet   *)
(* may come back to the queue, and says that a server has no other packet  *)
(* than the one it has chosen.                                             *)
(***************************************************************************)
EXTENDS TestingQueue, TLAPS

Held ==
    \A p \in Packets :
        /\ place[p] \in {"queue", "locked"} \cup Servers =>
              exe[p] = prio[p] /\ status[p] = "RUNNING"
        /\ \A s \in Servers : place[p] = s =>
              chosen[s] \in FileNames /\ chosen[s][1] = p

IInv == TypeOK /\ Held /\ StatusOfQueue

LEMMA InvInit == Init => IInv
<1> SUFFICES ASSUME Init PROVE IInv
  OBVIOUS
<1>1. TypeOK
  <2>1. SendPrio \in Prios
    BY QueueAssumption DEF Prios
  <2>2. 0 \in 0 .. MaxOps /\ 0 \in 0 .. MaxFaults
    BY QueueAssumption
  <2> QED
    BY <2>1, <2>2 DEF Init, TypeOK, Places, Ops
<1> QED
  BY <1>1, QueueAssumption DEF Init, IInv, Held, StatusOfQueue

\* Bounds that the failures and the judges' operations keep
LEMMA FaultType == ASSUME TypeOK, Fault PROVE faults' \in 0 .. MaxFaults /\ ops' \in 0 .. MaxOps
BY QueueAssumption DEF TypeOK, Fault

LEMMA ShiftedType == ASSUME TypeOK, NEW p \in Packets PROVE Shifted(p) \in Prios
<1>1. prio[p] \in 0 .. MaxPrio
  BY DEF TypeOK, Prios
<1> QED
  BY <1>1, QueueAssumption DEF Shifted, Prios

-----------------------------------------------------------------------------
\* serve_run_request writes both files before the run is RUNNING.
LEMMA ContestKeeps ==
    ASSUME IInv, NEW p \in Packets, Send(p) \/ ReadReply(p)
    PROVE  IInv'
<1> USE DEF IInv, serverVars, bounds
<1>1. CASE Send(p)
  <2>1. TypeOK'
    BY <1>1 DEF Send, Move, TypeOK, Places
  <2> QED
    BY <1>1, <2>1, QueueAssumption DEF Send, Move, TypeOK, Held, StatusOfQueue
<1>2. CASE ReadReply(p)
  <2>1. TypeOK'
    BY <1>2 DEF ReadReply, TypeOK
  <2> QED
    BY <1>2, <2>1, QueueAssumption DEF ReadReply, TypeOK, Held, StatusOfQueue
<1> QED
  BY <1>1, <1>2

\* Steps of a server that only read the directory
LEMMA ScanKeeps ==
    ASSUME IInv, NEW s \in Servers, Scan(s) \/ ScanNothing(s) \/ Miss(s)
    PROVE  IInv'
<1> USE DEF IInv, bounds
<1>1. Listed \subseteq FileNames /\ \A p \in Queue : Name(p) \in FileNames
  BY DEF Listed, Name, Queue, FileNames, TypeOK
<1>2. UNCHANGED <<place, prio, exe, op, status, ops, faults>>
  BY DEF Scan, ScanNothing, Miss
<1>3. \A p \in Packets : place[p] # s
  BY DEF Scan, ScanNothing, Miss, Idle
<1>4. /\ chosen' \in [Servers -> FileNames \cup {None}]
      /\ \A t \in Servers : t # s => chosen'[t] = chosen[t]
  BY <1>1 DEF Scan, ScanNothing, Miss, TypeOK
<1>5. ign' \in [Servers -> SUBSET FileNames]
  BY <1>1 DEF Scan, ScanNothing, Miss, IgnoredAfterMiss, TypeOK
<1>6. TypeOK'
  BY <1>2, <1>4, <1>5 DEF TypeOK
<1> QED
  BY <1>2, <1>3, <1>4, <1>6 DEF Held, StatusOfQueue

\* A server that takes what it has chosen has nothing else in its hands.
LEMMA TakeKeeps ==
    ASSUME IInv, NEW s \in Servers, Take(s)
    PROVE  IInv'
<1> USE DEF IInv, serverVars, bounds
<1>1. PICK p \in Packets : place[p] = "queue" /\ chosen[s] = <<p, prio[p]>>
  BY DEF Take, Listed, Queue, Name
<1>2. /\ place' = [place EXCEPT ![p] = s]
      /\ UNCHANGED <<prio, exe, chosen, ign, op, status, ops, faults>>
  BY <1>1 DEF Take, Move
<1>3. TypeOK'
  BY <1>2 DEF TypeOK, Places
<1>4. chosen[s] \in FileNames /\ chosen[s][1] = p
  BY <1>1 DEF TypeOK, FileNames
<1>5. exe[p] = prio[p] /\ status[p] = "RUNNING"
  BY <1>1 DEF Held
<1>6. Held'
  BY <1>2, <1>4, <1>5 DEF Held, TypeOK
<1>7. StatusOfQueue'
  BY <1>2, <1>5, QueueAssumption DEF StatusOfQueue, TypeOK
<1> QED
  BY <1>3, <1>6, <1>7

\* A packet that a server lets go of goes back to the queue or is answered.
LEMMA LetGoKeeps ==
    ASSUME IInv, NEW s \in Servers, PutBackOthers(s) \/ CopyFails(s) \/ Test(s)
    PROVE  IInv'
<1> USE DEF IInv, bounds
<1>1. PICK p \in Packets :
        /\ place[p] = s
        /\ \E l \in {"queue", "answered"} :
              /\ place' = [place EXCEPT ![p] = l]
              /\ l = "queue" => exe' = exe
        /\ exe' = exe \/ exe' = [exe EXCEPT ![p] = None]
        /\ chosen' = [chosen EXCEPT ![s] = None]
        /\ ign' = ign \/ ign' = [ign EXCEPT ![s] = @ \cup {chosen[s]}]
  <2>1. CASE PutBackOthers(s)
    BY <2>1 DEF PutBackOthers, PutBack, Move
  <2>2. CASE CopyFails(s)
    <3>1. PICK p \in Packets :
            /\ p \in Supports[s] /\ place[p] = s
            /\ IF IgnoreOnMiss THEN PutBack(s, p)
               ELSE /\ Move(p, "answered")
                    /\ chosen' = [chosen EXCEPT ![s] = None]
                    /\ UNCHANGED ign
            /\ UNCHANGED <<prio, exe, op, status>>
      BY <2>2, QueueAssumption DEF CopyFails
    <3> QED
      BY <3>1 DEF PutBack, Move
  <2>3. CASE Test(s)
    <3>1. PICK p \in Packets :
            /\ p \in Supports[s] /\ place[p] = s
            /\ Move(p, "answered")
            /\ exe' = [exe EXCEPT ![p] = None]
            /\ chosen' = [chosen EXCEPT ![s] = None]
            /\ UNCHANGED ign
      BY <2>3, QueueAssumption DEF Test
    <3> QED
      BY <3>1 DEF Move
  <2> QED
    BY <2>1, <2>2, <2>3
<1>2. UNCHANGED <<prio, op, status>>
  BY DEF PutBackOthers, CopyFails, Test
<1>3. ops' \in 0 .. MaxOps /\ faults' \in 0 .. MaxFaults
  BY FaultType DEF PutBackOthers, CopyFails, Test, TypeOK
<1>4. chosen[s] \in FileNames /\ chosen[s][1] = p /\ exe[p] = prio[p]
      /\ status[p] = "RUNNING"
  BY <1>1 DEF Held
<1>5. \A q \in Packets : place[q] = s => q = p
  BY <1>4 DEF Held
<1>6. TypeOK'
  BY <1>1, <1>2, <1>3, <1>4 DEF TypeOK, Places
<1>7. \A q \in Packets : q # p => place'[q] = place[q] /\ exe'[q] = exe[q]
  BY <1>1 DEF TypeOK
<1>8. \A t \in Servers : t # s => chosen'[t] = chosen[t]
  BY <1>1 DEF TypeOK
<1>9. /\ place'[p] \in {"queue", "answered"}
      /\ place'[p] = "queue" => exe'[p] = exe[p]
  BY <1>1 DEF TypeOK
<1>10. Held'
  BY <1>2, <1>4, <1>5, <1>7, <1>8, <1>9, QueueAssumption DEF Held, TypeOK
<1>11. StatusOfQueue'
  BY <1>2, <1>4, <1>7, <1>9 DEF StatusOfQueue
<1> QED
  BY <1>6, <1>10, <1>11

LEMMA DieKeeps ==
    ASSUME IInv, NEW s \in Servers, Die(s)
    PROVE  IInv'
<1> USE DEF IInv
<1>1. ops' \in 0 .. MaxOps /\ faults' \in 0 .. MaxFaults
  BY FaultType DEF Die
<1>2. /\ place' = [p \in Packets |-> IF place[p] = s THEN "lost" ELSE place[p]]
      /\ chosen' = [chosen EXCEPT ![s] = None]
      /\ ign' = [ign EXCEPT ![s] = {}]
      /\ UNCHANGED <<prio, exe, op, status>>
  BY DEF Die
<1>3. TypeOK'
  BY <1>1, <1>2 DEF TypeOK, Places
<1>4. \A p \in Packets : place'[p] # s
  BY <1>2, QueueAssumption
<1>5. Held'
  BY <1>2, <1>4, QueueAssumption DEF Held, TypeOK
<1>6. StatusOfQueue'
  BY <1>2, QueueAssumption DEF StatusOfQueue, Held
<1> QED
  BY <1>3, <1>5, <1>6

-----------------------------------------------------------------------------
\* A locked packet is nobody's but the contest server's.
LEMMA JudgeKeeps ==
    ASSUME IInv, NEW p \in Packets,
           \/ \E k \in Ops : Lock(p, k)
           \/ Operating(p) \/ MoveFails(p) \/ LoseLocked(p)
    PROVE  IInv'
<1> USE DEF IInv, serverVars, bounds
<1>1. UNCHANGED <<chosen, ign>>
  BY DEF Lock, Operating, Delete, UnlockSame, MoveExe, UnlockMoved, MoveFails, LoseLocked
<1>2. place[p] \in {"queue", "locked"} /\ exe[p] = prio[p] /\ status[p] = "RUNNING"
  BY DEF Lock, Operating, Delete, UnlockSame, MoveExe, UnlockMoved, MoveFails,
         LoseLocked, Held
<1>3. ops' \in 0 .. MaxOps /\ faults' \in 0 .. MaxFaults
  <2>1. CASE \E k \in Ops : Lock(p, k)
    BY <2>1, QueueAssumption DEF Lock, TypeOK
  <2>2. CASE Operating(p)
    BY <2>2 DEF Operating, Delete, UnlockSame, MoveExe, UnlockMoved, TypeOK
  <2>3. CASE MoveFails(p) \/ LoseLocked(p)
    BY <2>3, FaultType DEF MoveFails, LoseLocked
  <2> QED
    BY <2>1, <2>2, <2>3
<1>4. CASE Delete(p)
  <2>1. /\ place' = [place EXCEPT ![p] = "deleted"] /\ exe' = [exe EXCEPT ![p] = None]
        /\ status' = [status EXCEPT ![p] = "PENDING"] /\ prio' = prio /\ op' = None
    BY <1>2, <1>4 DEF Delete, Move
  <2>2. TypeOK'
    BY <1>1, <1>3, <2>1 DEF TypeOK, Places
  <2>3. Held'
    BY <1>1, <2>1, QueueAssumption DEF Held, TypeOK
  <2>4. StatusOfQueue'
    BY <2>1 DEF StatusOfQueue, TypeOK
  <2> QED
    BY <2>2, <2>3, <2>4
<1>5. CASE MoveExe(p)
  <2>1. /\ exe' = [exe EXCEPT ![p] = Shifted(p)] /\ prio' = [prio EXCEPT ![p] = Shifted(p)]
        /\ op' = "moved" /\ UNCHANGED <<place, status>>
    BY <1>5 DEF MoveExe
  <2>2. TypeOK'
    BY <1>1, <1>3, <2>1, ShiftedType DEF TypeOK
  <2>3. Held'
    BY <1>1, <2>1 DEF Held, TypeOK
  <2> QED
    BY <2>1, <2>2, <2>3 DEF StatusOfQueue
<1>6. CASE ~Delete(p) /\ ~MoveExe(p)
  <2>1. PICK l \in {"queue", "locked", "lost"} : place' = [place EXCEPT ![p] = l]
    BY <1>6 DEF Lock, Operating, UnlockSame, UnlockMoved, MoveFails,
                LoseLocked, Unlock, Move
  <2>2. UNCHANGED <<prio, exe, status>> /\ op' \in Ops \cup {None}
    BY <1>6 DEF Lock, Operating, UnlockSame, UnlockMoved, MoveFails,
                LoseLocked, Unlock, Move
  <2>3. TypeOK'
    BY <1>1, <1>3, <2>1, <2>2 DEF TypeOK, Places
  <2>4. \A q \in Packets : q # p => place'[q] = place[q]
    BY <2>1 DEF TypeOK
  <2>5. place'[p] = l
    BY <2>1 DEF TypeOK
  <2>6. Held'
    BY <1>1, <1>2, <2>2, <2>4, <2>5, QueueAssumption DEF Held
  <2>7. StatusOfQueue'
    BY <1>2, <2>2, <2>4, <2>5 DEF StatusOfQueue
  <2> QED
    BY <2>3, <2>6, <2>7
<1> QED
  BY <1>4, <1>5, <1>6

LEMMA InvNext == IInv /\ [Next]_vars => IInv'
<1> SUFFICES ASSUME IInv, [Next]_vars PROVE IInv'
  OBVIOUS
<1>1. CASE UNCHANGED vars
  BY <1>1 DEF vars, IInv, TypeOK, Held, StatusOfQueue
<1>2. CASE Next
  BY <1>2, ContestKeeps, ScanKeeps, TakeKeeps, LetGoKeeps, DieKeeps, JudgeKeeps
     DEF Next, Serving
<1> QED
  BY <1>1, <1>2

-----------------------------------------------------------------------------
(***************************************************************************)
(* Types hold; a priority code stays in its range (get_priority_code).     *)
(***************************************************************************)
THEOREM TestingQueueTypes == Spec => []TypeOK
<1>1. IInv => TypeOK
  BY DEF IInv
<1> QED
  BY <1>1, InvInit, InvNext, PTL DEF Spec

(***************************************************************************)
(* The executable lies beside every packet of the queue, under its name    *)
(* (serve_run_request, serve_testing_queue_change_priority).               *)
(***************************************************************************)
THEOREM ExecutablesAreBeside == Spec => []ExecutableBeside
<1>1. IInv => ExecutableBeside
  BY DEF IInv, Held, ExecutableBeside, Queue
<1> QED
  BY <1>1, InvInit, InvNext, PTL DEF Spec

(***************************************************************************)
(* The status of a run follows its packet (serve_testing_queue_delete).    *)
(***************************************************************************)
THEOREM StatusFollowsQueue == Spec => []StatusOfQueue
<1>1. IInv => StatusOfQueue
  BY DEF IInv
<1> QED
  BY <1>1, InvInit, InvNext, PTL DEF Spec

-----------------------------------------------------------------------------
(* What servers ignore.                                                    *)

\* No server ignores a packet that it tests.
NotIgnored ==
    \A s \in Servers : \A n \in ign[s] : n[1] \notin Supports[s]

\* A server adds only the name it has chosen to its list.
LEMMA IgnoredBefore ==
    ASSUME IInv, [Next]_vars, NEW s \in Servers, NEW n \in ign'[s]
    PROVE  \/ n \in ign[s]
           \/ PutBackOthers(s) /\ n[1] \notin Supports[s]
           \/ IgnoreOnMiss /\ (CopyFails(s) \/ Miss(s))
<1> USE DEF IInv
<1>1. ign \in [Servers -> SUBSET FileNames]
  BY DEF TypeOK
<1>2. CASE UNCHANGED vars
  BY <1>2 DEF vars
<1>3. CASE \E p \in Packets :
             \/ Send(p) \/ ReadReply(p) \/ (\E k \in Ops : Lock(p, k))
             \/ Operating(p) \/ MoveFails(p) \/ LoseLocked(p)
  BY <1>3 DEF Send, ReadReply, Lock, Operating, Delete, UnlockSame, MoveExe,
     UnlockMoved, MoveFails, LoseLocked, serverVars
<1>4. ASSUME NEW t \in Servers, Scan(t) \/ ScanNothing(t) \/ Take(t) \/ Test(t)
      PROVE  ign'[s] \subseteq ign[s]
  BY <1>1, <1>4 DEF Scan, ScanNothing, Take, Test, serverVars
<1>5. ASSUME NEW t \in Servers, Die(t) PROVE ign'[s] \subseteq ign[s]
  BY <1>1, <1>5 DEF Die
<1>6. ASSUME NEW t \in Servers, Miss(t), n \notin ign[s]
      PROVE  IgnoreOnMiss /\ t = s
  BY <1>1, <1>6, QueueAssumption DEF Miss, IgnoredAfterMiss
<1>7. ASSUME NEW t \in Servers, PutBackOthers(t), n \notin ign[s]
      PROVE  t = s /\ n[1] \notin Supports[s]
  <2>1. PICK p \in Packets \ Supports[t] :
           place[p] = t /\ ign' = [ign EXCEPT ![t] = @ \cup {chosen[t]}]
    BY <1>7 DEF PutBackOthers, PutBack
  <2>2. chosen[t][1] = p
    BY <2>1 DEF Held
  <2> QED
    BY <1>1, <1>7, <2>1, <2>2
<1>8. ASSUME NEW t \in Servers, CopyFails(t), n \notin ign[s]
      PROVE  t = s /\ IgnoreOnMiss
  <2>1. PICK p \in Supports[t] :
           IF IgnoreOnMiss THEN PutBack(t, p) ELSE UNCHANGED ign
    BY <1>8, QueueAssumption DEF CopyFails
  <2> QED
    BY <1>1, <1>8, <2>1, QueueAssumption DEF PutBack
<1> QED
  BY <1>2, <1>3, <1>4, <1>5, <1>6, <1>7, <1>8 DEF Next, Serving

(***************************************************************************)
(* The promise of NEWS:1559-1564 in the servers of run.c: a server ignores *)
(* a packet only if it does not support it, so that what it leaves in the  *)
(* queue stays available to those that do.  EveryPacketServed rests on it. *)
(***************************************************************************)
THEOREM SupportedIsNotIgnored ==
    ASSUME ~IgnoreOnMiss
    PROVE  Spec => []NotIgnored
<1>1. Init => NotIgnored
  BY DEF Init, NotIgnored
<1>2. IInv /\ NotIgnored /\ [Next]_vars => NotIgnored'
  BY IgnoredBefore DEF NotIgnored
<1> QED
  BY <1>1, <1>2, InvInit, InvNext, PTL DEF Spec

\* The name a server has chosen is still there, or it has the packet.
ChosenIsThere ==
    /\ op = None
    /\ \A s \in Servers : chosen[s] # None =>
          \/ chosen[s] \in Listed
          \/ \E p \in Packets : place[p] = s

\* Nobody else touches the queue.
Undisturbed ==
    /\ \A s, t \in Servers : s = t
    /\ MaxOps = 0 /\ MaxFaults = 0

LEMMA NoFault == ASSUME IInv, Undisturbed PROVE ~Fault /\ ~(ops < MaxOps)
BY DEF IInv, TypeOK, Undisturbed, Fault

LEMMA ChosenIsThereNext ==
    ASSUME IInv, Undisturbed, ChosenIsThere, [Next]_vars
    PROVE  ChosenIsThere'
<1>1. ~Fault /\ ~(ops < MaxOps)
  BY NoFault
<1>2. /\ chosen \in [Servers -> FileNames \cup {None}]
      /\ place \in [Packets -> Places]
  BY DEF IInv, TypeOK
<1> USE DEF ChosenIsThere, Listed, Queue, Name
<1>3. CASE UNCHANGED vars
  BY <1>3 DEF vars
<1>4. ASSUME NEW p \in Packets, Send(p) PROVE ChosenIsThere'
  BY <1>2, <1>4, QueueAssumption DEF Send, Move, serverVars
<1>5. ASSUME NEW p \in Packets, ReadReply(p) PROVE ChosenIsThere'
  BY <1>5 DEF ReadReply, serverVars
<1>6. ASSUME NEW p \in Packets,
             \/ \E k \in Ops : Lock(p, k)
             \/ Operating(p) \/ MoveFails(p) \/ LoseLocked(p)
      PROVE  FALSE
  BY <1>1, <1>6, QueueAssumption
     DEF Lock, Operating, Delete, UnlockSame, MoveExe, UnlockMoved, MoveFails,
         LoseLocked, Ops
<1>7. ASSUME NEW s \in Servers, CopyFails(s) \/ Die(s) PROVE FALSE
  BY <1>1, <1>7 DEF CopyFails, Die
<1>8. ASSUME NEW s \in Servers, Scan(s) PROVE ChosenIsThere'
  BY <1>2, <1>8 DEF Scan, Undisturbed
<1>9. ASSUME NEW s \in Servers, ScanNothing(s) PROVE ChosenIsThere'
  BY <1>9 DEF ScanNothing
<1>10. ASSUME NEW s \in Servers, Take(s) PROVE ChosenIsThere'
  <2>1. PICK p \in Packets : place[p] = "queue" /\ chosen[s] = <<p, prio[p]>>
    BY <1>10 DEF Take
  <2>2. place'[p] = s /\ op' = op
    BY <1>2, <1>10, <2>1 DEF Take, Move
  <2> QED
    BY <2>2 DEF Undisturbed
<1>11. ASSUME NEW s \in Servers,
              Miss(s) \/ PutBackOthers(s) \/ Test(s)
       PROVE  ChosenIsThere'
  <2>1. chosen' = [chosen EXCEPT ![s] = None] /\ op' = op
    BY <1>11 DEF Miss, PutBackOthers, PutBack, Test
  <2> QED
    BY <1>2, <2>1 DEF Undisturbed
<1> QED
  BY <1>3, <1>4, <1>5, <1>6, <1>7, <1>8, <1>9, <1>10, <1>11
     DEF Next, Serving

(***************************************************************************)
(* With either kind of server, one that works alone on a queue where       *)
(* nothing fails ignores no packet that it tests: what the run             *)
(* testing_queue_ignore shows takes a second server.                       *)
(***************************************************************************)
THEOREM AloneNothingIsIgnored ==
    ASSUME Undisturbed
    PROVE  Spec => []NotIgnored
<1>1. Init => ChosenIsThere /\ NotIgnored
  BY DEF Init, ChosenIsThere, NotIgnored
<1>2. ASSUME IInv, ChosenIsThere, NotIgnored, [Next]_vars PROVE NotIgnored'
  <2>1. ~Fault
    BY <1>2, NoFault
  <2>2. \A s \in Servers : ~CopyFails(s) /\ ~Miss(s)
    BY <1>2, <2>1 DEF CopyFails, Miss, ChosenIsThere
  <2> QED
    BY <1>2, <2>2, IgnoredBefore DEF NotIgnored
<1>3. IInv /\ ChosenIsThere /\ [Next]_vars => ChosenIsThere'
  BY ChosenIsThereNext
<1> QED
  BY <1>1, <1>2, <1>3, InvInit, InvNext, PTL DEF Spec

-----------------------------------------------------------------------------
\* The contest server holds the packet its operation is about, and no other.
LockedIsOperated ==
    /\ op = None => \A p \in Packets : place[p] # "locked"
    /\ op # None => \E p \in Packets :
          \A q \in Packets : place[q] = "locked" <=> q = p

LEMMA LockedNext ==
    ASSUME IInv, LockedIsOperated, [Next]_vars
    PROVE  LockedIsOperated'
<1>1. /\ place \in [Packets -> Places] /\ op \in Ops \cup {"moved", None}
      /\ "locked" \notin Servers
  BY QueueAssumption DEF IInv, TypeOK
<1>2. None \notin Ops \cup {"moved"}
  BY QueueAssumption DEF Ops
<1> USE DEF LockedIsOperated
<1>3. CASE UNCHANGED vars
  BY <1>3 DEF vars
<1>4. ASSUME NEW p \in Packets, Send(p) PROVE LockedIsOperated'
  BY <1>1, <1>4 DEF Send, Move
<1>5. ASSUME NEW p \in Packets, ReadReply(p) PROVE LockedIsOperated'
  BY <1>5 DEF ReadReply
<1>6. ASSUME NEW p \in Packets, NEW k \in Ops, Lock(p, k)
      PROVE  LockedIsOperated'
  <2>1. op = None /\ place' = [place EXCEPT ![p] = "locked"] /\ op' # None
    BY <1>2, <1>6 DEF Lock, Move
  <2> QED
    BY <1>1, <2>1
<1>7. ASSUME NEW p \in Packets,
             Delete(p) \/ UnlockSame(p) \/ UnlockMoved(p) \/ MoveFails(p) \/
             LoseLocked(p)
      PROVE  LockedIsOperated'
  <2>1. PICK l \in {"queue", "deleted", "lost"} :
           place' = [place EXCEPT ![p] = l]
    BY <1>7 DEF Delete, UnlockSame, UnlockMoved, MoveFails, LoseLocked, Unlock,
       Move
  <2>2. op' = None /\ place[p] = "locked"
    BY <1>7 DEF Delete, UnlockSame, UnlockMoved, MoveFails, LoseLocked, Unlock
  <2> QED
    BY <1>1, <2>1, <2>2
<1>8. ASSUME NEW p \in Packets, MoveExe(p) PROVE LockedIsOperated'
  BY <1>2, <1>8 DEF MoveExe
<1>9. ASSUME NEW s \in Servers, Serving(s) \/ CopyFails(s) \/ Die(s)
      PROVE  LockedIsOperated'
  <2>1. CASE Scan(s) \/ ScanNothing(s) \/ Miss(s)
    BY <2>1 DEF Scan, ScanNothing, Miss
  <2>2. CASE Take(s)
    BY <1>1, <2>2 DEF Take, Move, Listed, Queue, Name
  <2>3. CASE PutBackOthers(s) \/ Test(s)
    BY <1>1, <2>3 DEF PutBackOthers, PutBack, Test, Move
  <2>4. CASE CopyFails(s)
    BY <1>1, <2>4 DEF CopyFails, PutBack, Move
  <2>5. CASE Die(s)
    BY <1>1, <2>5 DEF Die
  <2> QED
    BY <1>9, <2>1, <2>2, <2>3, <2>4, <2>5 DEF Serving
<1> QED
  BY <1>3, <1>4, <1>5, <1>6, <1>7, <1>8, <1>9 DEF Next, Operating

(***************************************************************************)
(* A judge's operation holds one packet and lets it go when it ends: none  *)
(* is left behind where no server looks, unless something fails.           *)
(***************************************************************************)
THEOREM NothingStaysLocked == Spec => []LockedIsOperated
<1>1. Init => LockedIsOperated
  BY DEF Init, LockedIsOperated
<1>2. IInv /\ LockedIsOperated /\ [Next]_vars => LockedIsOperated'
  BY LockedNext
<1> QED
  BY <1>1, <1>2, InvInit, InvNext, PTL DEF Spec
=============================================================================

---------------------------- MODULE SpoolProofs ----------------------------
(***************************************************************************)
(* The spool hands out whole packets, each to one reader, and implements   *)
(* PacketQueue, for every number of writers, readers, packets and names.   *)
(*                                                                         *)
(* The inductive invariant says that a packet is in one place at a time    *)
(* (Places) and that a reader holds a packet exactly while it reads, a     *)
(* packet that nobody else holds and nobody has got (Hands).               *)
(***************************************************************************)
EXTENDS Spool, TLAPS

Places ==
    /\ \A v, w \in Writers : inf[v] # None /\ inf[v] = inf[w] => v = w
    /\ \A m, n \in Names : dir[m] # None /\ dir[m] = dir[n] => m = n
    /\ \A w \in Writers : inf[w] # None =>
          /\ inf[w] \notin claimed \cup lost
          /\ \A n \in Names : inf[w] # dir[n]
    /\ \A n \in Names : dir[n] # None => dir[n] \notin claimed \cup lost
    /\ claimed \cap lost = {}

Hands ==
    /\ got \subseteq claimed
    /\ \A r \in Readers : outf[r] # None <=> stage[r] \in {"reading", "removing"}
    /\ \A r \in Readers : outf[r] # None => outf[r] \in claimed \ got
    /\ \A q, r \in Readers : outf[q] # None /\ outf[q] = outf[r] => q = r
    /\ \A r \in Readers : stage[r] = "refused" => chosen[r] \in Names

IInv == TypeOK /\ NothingTorn /\ Places /\ Hands

LEMMA InvInit == Init => IInv
BY NamesAssumption DEF Init, IInv, TypeOK, NothingTorn, Present, Places, Hands

\* A new packet is in no place yet.
LEMMA OpenInKeeps ==
    ASSUME IInv, NEW w \in Writers, NEW x \in Packets, OpenIn(w, x)
    PROVE  IInv'
<1> USE DEF IInv, rvars
<1>1. /\ x \notin claimed \cup lost /\ x # None
      /\ \A v \in Writers : inf[v] # x
      /\ \A n \in Names : dir[n] # x
  BY NamesAssumption DEF OpenIn, Used, InIn, InDir, Present
<1>2. TypeOK'
  BY DEF OpenIn, TypeOK
<1>3. Places'
  BY <1>1 DEF OpenIn, TypeOK, Places
<1> QED
  BY <1>2, <1>3 DEF OpenIn, NothingTorn, Present, Hands

\* The rename puts the packet of in/ into dir/ and displaces another.
LEMMA PublishKeeps ==
    ASSUME IInv, NEW w \in Writers, Publish(w)
    PROVE  IInv'
<1> USE DEF IInv, rvars
<1> DEFINE x == inf[w]
           n == NameOf[x]
<1>1. /\ x \in Packets /\ x # None /\ n \in Names /\ full[w]
  BY NamesAssumption DEF Publish, Written, TypeOK
<1>2. /\ dir' = [dir EXCEPT ![n] = x]
      /\ whole' = whole \cup {n}
      /\ lost' = lost \cup ({dir[n]} \ {None})
      /\ inf' = [inf EXCEPT ![w] = None]
      /\ UNCHANGED <<full, chosen, outf, stage, claimed, got, crashes>>
  BY <1>1 DEF Publish
<1>3. TypeOK'
  BY <1>1, <1>2 DEF TypeOK
<1>4. NothingTorn'
  BY <1>1, <1>2 DEF NothingTorn, Present, TypeOK
<1>5. Places'
  <2>1. /\ \A v \in Writers \ {w} : inf'[v] = inf[v] /\ inf[v] # x
        /\ inf'[w] = None
    BY <1>1, <1>2 DEF TypeOK, Places
  <2>2. /\ \A m \in Names \ {n} : dir'[m] = dir[m] /\ dir[m] # x
        /\ dir'[n] = x
    BY <1>1, <1>2 DEF TypeOK, Places
  <2>3. x \notin claimed \cup lost /\ x # dir[n]
    BY <1>1 DEF Places
  <2>4. x \notin claimed' \cup lost'
    BY <1>2, <2>3
  <2>5. ASSUME NEW v \in Writers, inf'[v] # None
        PROVE  /\ inf'[v] \notin claimed' \cup lost'
               /\ \A m \in Names : inf'[v] # dir'[m]
    <3>1. v # w /\ inf'[v] = inf[v]
      BY <2>1, <2>5
    <3>2. inf[v] \notin claimed \cup lost /\ \A m \in Names : inf[v] # dir[m]
      BY <2>5, <3>1 DEF Places
    <3> QED
      BY <1>1, <1>2, <2>1, <2>2, <3>1, <3>2
  <2>6. ASSUME NEW m \in Names, dir'[m] # None
        PROVE  dir'[m] \notin claimed' \cup lost'
    <3>1. CASE m = n
      BY <2>2, <2>4, <3>1
    <3>2. CASE m # n
      BY <1>1, <1>2, <2>2, <2>6, <3>2 DEF Places
    <3> QED
      BY <3>1, <3>2
  <2>7. \A u, v \in Writers : inf'[u] # None /\ inf'[u] = inf'[v] => u = v
    BY <2>1 DEF Places
  <2>8. \A l, m \in Names : dir'[l] # None /\ dir'[l] = dir'[m] => l = m
    BY <2>2 DEF Places
  <2>9. claimed' \cap lost' = {}
    BY <1>1, <1>2 DEF Places
  <2> QED
    BY <2>5, <2>6, <2>7, <2>8, <2>9 DEF Places
<1> QED
  BY <1>2, <1>3, <1>4, <1>5 DEF Hands

\* The other steps of writers touch their own files of in/.
LEMMA WriterKeeps ==
    ASSUME IInv, NEW w \in Writers, WriterStep(w)
    PROVE  IInv'
<1> USE DEF IInv, rvars
<1>1. CASE FillIn(w)
  BY <1>1 DEF FillIn, TypeOK, NothingTorn, Present, Places, Hands
<1>2. CASE FailWrite(w)
  <2>1. TypeOK' /\ NothingTorn' /\ Hands'
    BY <1>2 DEF FailWrite, TypeOK, NothingTorn, Present, Hands
  <2>2. Places'
    BY <1>2 DEF FailWrite, TypeOK, Places
  <2> QED
    BY <2>1, <2>2
<1>3. CASE CrashWriter(w)
  <2>1. TypeOK' /\ NothingTorn' /\ Hands'
    BY <1>3, NamesAssumption DEF CrashWriter, TypeOK, NothingTorn, Present, Hands
  <2>2. Places'
    BY <1>3 DEF CrashWriter, TypeOK, Places
  <2> QED
    BY <2>1, <2>2
<1> QED
  BY <1>1, <1>2, <1>3, PublishKeeps DEF WriterStep

-----------------------------------------------------------------------------
\* The rename to out/ takes the packet out of dir/, into one pair of hands.
LEMMA GrabKeeps ==
    ASSUME IInv, NEW r \in Readers, Grab(r)
    PROVE  IInv'
<1> USE DEF IInv, wvars
<1> DEFINE n == chosen[r]
           x == dir[n]
<1>1. /\ n \in Names /\ x \in Packets /\ x # None
      /\ x \notin claimed /\ x \notin lost /\ x \notin got
      /\ outf[r] = None
  BY DEF Grab, Present, TypeOK, Places, Hands
<1>2. /\ outf' = [outf EXCEPT ![r] = x] /\ claimed' = claimed \cup {x}
      /\ dir' = [dir EXCEPT ![n] = None]
      /\ chosen' = [chosen EXCEPT ![r] = None]
      /\ stage' = [stage EXCEPT ![r] = "reading"]
      /\ UNCHANGED <<inf, full, whole, got, lost, crashes>>
  BY DEF Grab
<1>3. TypeOK' /\ NothingTorn'
  BY <1>1, <1>2 DEF TypeOK, NothingTorn, Present
<1>4. Places'
  <2>1. /\ \A m \in Names \ {n} : dir'[m] = dir[m] /\ dir[m] # x
        /\ dir'[n] = None
    BY <1>1, <1>2 DEF TypeOK, Places
  <2>2. \A w \in Writers : inf[w] # x
    BY <1>1 DEF Places
  <2> QED
    BY <1>1, <1>2, <2>1, <2>2 DEF Places
<1>5. Hands'
  <2>1. \A q \in Readers \ {r} : /\ outf'[q] = outf[q] /\ outf[q] # x
                                 /\ stage'[q] = stage[q] /\ chosen'[q] = chosen[q]
    BY <1>1, <1>2 DEF TypeOK, Hands
  <2>2. outf'[r] = x /\ stage'[r] = "reading"
    BY <1>2 DEF TypeOK
  <2> QED
    BY <1>1, <1>2, <2>1, <2>2 DEF Hands
<1> QED
  BY <1>3, <1>4, <1>5

\* A file that cannot be renamed is unlinked, or what has its name by then.
LEMMA UnlinkRefusedKeeps ==
    ASSUME IInv, NEW r \in Readers, UnlinkRefused(r)
    PROVE  IInv'
<1> USE DEF IInv, wvars
<1> DEFINE n == chosen[r]
<1>1. n \in Names
  BY DEF UnlinkRefused, Hands
<1>2. /\ dir' = [dir EXCEPT ![n] = None]
      /\ lost' = lost \cup ({dir[n]} \ {None})
      /\ chosen' = [chosen EXCEPT ![r] = None]
      /\ stage' = [stage EXCEPT ![r] = "idle"]
      /\ UNCHANGED <<inf, full, whole, outf, claimed, got, crashes>>
  BY DEF UnlinkRefused
<1>3. TypeOK' /\ NothingTorn'
  BY <1>1, <1>2 DEF TypeOK, NothingTorn, Present
<1>4. Places'
  <2>1. /\ \A m \in Names \ {n} : dir'[m] = dir[m]
        /\ dir'[n] = None
    BY <1>1, <1>2 DEF TypeOK
  <2>2. \A m \in Names \ {n} : dir[m] # None => dir[m] # dir[n]
    BY <1>1 DEF Places
  <2> QED
    BY <1>1, <1>2, <2>1, <2>2 DEF Places
<1>5. Hands'
  BY <1>2 DEF UnlinkRefused, Hands, TypeOK
<1> QED
  BY <1>3, <1>4, <1>5

\* The steps of a reader that leave dir/ and what is claimed alone.
LEMMA QuietReaderKeeps ==
    ASSUME IInv, NEW r \in Readers,
           \/ Scan(r) \/ Miss(r) \/ Refused(r) \/ ReadOut(r)
           \/ FailRead(r) \/ Remove(r) \/ CrashReader(r)
    PROVE  IInv'
<1> USE DEF IInv, wvars
<1>1. UNCHANGED <<inf, full, dir, whole, claimed, lost>>
  BY DEF Scan, Miss, Refused, ReadOut, FailRead, Remove, CrashReader
<1>2. NothingTorn' /\ Places'
  BY <1>1 DEF NothingTorn, Present, Places
<1>3. CASE Scan(r)
  BY <1>2, <1>3 DEF Scan, TypeOK, Hands
<1>4. CASE Miss(r)
  BY <1>2, <1>4 DEF Miss, TypeOK, Hands
<1>5. CASE Refused(r)
  BY <1>2, <1>5 DEF Refused, Present, TypeOK, Hands
<1>6. CASE ReadOut(r)
  BY <1>2, <1>6 DEF ReadOut, TypeOK, Hands
<1>7. CASE FailRead(r)
  BY <1>2, <1>7 DEF FailRead, TypeOK, Hands
<1>8. CASE Remove(r)
  <2>1. outf[r] # None /\ outf[r] \in Packets /\ outf[r] \in claimed
    BY <1>8 DEF Remove, TypeOK, Hands
  <2>2. /\ got' = got \cup {outf[r]}
        /\ outf' = [outf EXCEPT ![r] = None] /\ stage' = [stage EXCEPT ![r] = "idle"]
        /\ UNCHANGED <<chosen, crashes>>
    BY <1>8 DEF Remove
  <2>3. TypeOK'
    BY <1>1, <2>1, <2>2 DEF TypeOK
  <2>4. Hands'
    BY <1>1, <2>1, <2>2 DEF TypeOK, Hands
  <2> QED
    BY <1>2, <2>3, <2>4
<1>9. CASE CrashReader(r)
  BY <1>2, <1>9, NamesAssumption DEF CrashReader, TypeOK, Hands
<1> QED
  BY <1>3, <1>4, <1>5, <1>6, <1>7, <1>8, <1>9

LEMMA InvNext == IInv /\ [Next]_vars => IInv'
<1> SUFFICES ASSUME IInv, [Next]_vars PROVE IInv'
  OBVIOUS
<1>1. CASE UNCHANGED vars
  BY <1>1 DEF vars, wvars, rvars, IInv, TypeOK, NothingTorn, Present, Places, Hands
<1>2. CASE Next
  BY <1>2, OpenInKeeps, WriterKeeps, GrabKeeps, UnlinkRefusedKeeps,
     QuietReaderKeeps DEF Next, ReaderStep
<1> QED
  BY <1>1, <1>2

-----------------------------------------------------------------------------
(***************************************************************************)
(* Types hold.                                                             *)
(***************************************************************************)
THEOREM SpoolTypes == Spec => []TypeOK
<1>1. IInv => TypeOK
  BY DEF IInv
<1> QED
  BY <1>1, InvInit, InvNext, PTL DEF Spec

(***************************************************************************)
(* A reader of dir/ never sees a part of a packet (generic_write_file).    *)
(***************************************************************************)
THEOREM NothingIsTorn == Spec => []NothingTorn
<1>1. IInv => NothingTorn
  BY DEF IInv
<1> QED
  BY <1>1, InvInit, InvNext, PTL DEF Spec

(***************************************************************************)
(* A packet is in the hands of one reader at most, and does not come back  *)
(* (generic_read_file).                                                    *)
(***************************************************************************)
THEOREM PacketsAreClaimedOnce == Spec => []ClaimedOnce
<1>1. IInv => ClaimedOnce
  BY DEF IInv, ClaimedOnce, Places, Hands, InIn, InDir, Present
<1> QED
  BY <1>1, InvInit, InvNext, PTL DEF Spec

-----------------------------------------------------------------------------
\* What a step does to the files of dir/, the claimed and the lost packets
LEMMA StepOfQueue == IInv /\ [Next]_vars => [Queue!Next]_(Queue!vars)
<1> SUFFICES ASSUME IInv, [Next]_vars
             PROVE  [Queue!Next]_(Queue!vars)
  OBVIOUS
<1> USE DEF Queue!Next, Queue!vars, Queue!Put, Queue!Take, Queue!Lose, Queue!Known
<1>1. CASE UNCHANGED <<dir, claimed, lost>>
  BY <1>1 DEF InDir, Present
<1>2. ASSUME NEW w \in Writers, Publish(w) PROVE Queue!Next
  <2> DEFINE x == inf[w]
             n == NameOf[x]
  <2>1. /\ x \in Packets /\ x # None /\ n \in Names
        /\ dir' = [dir EXCEPT ![n] = x] /\ claimed' = claimed
        /\ lost' = lost \cup ({dir[n]} \ {None})
    BY <1>2, NamesAssumption DEF Publish, Written, IInv, TypeOK
  <2>2. x \notin InDir \cup claimed \cup lost
    BY <2>1 DEF IInv, Places, InDir, Present
  <2>3. {dir[n]} \ {None} \in SUBSET InDir
    BY <2>1 DEF InDir, Present
  <2>4. InDir' = (InDir \ ({dir[n]} \ {None})) \cup {x}
    BY <2>1 DEF IInv, TypeOK, Places, InDir, Present
  <2>5. Queue!Put(x, {dir[n]} \ {None})
    BY <2>1, <2>2, <2>3, <2>4
  <2> QED
    BY <2>1, <2>3, <2>5
<1>3. ASSUME NEW r \in Readers, Grab(r) PROVE Queue!Next
  <2> DEFINE x == dir[chosen[r]]
  <2>1. /\ chosen[r] \in Names /\ x \in Packets /\ x # None /\ x \in InDir
        /\ dir' = [dir EXCEPT ![chosen[r]] = None]
        /\ claimed' = claimed \cup {x} /\ lost' = lost
    BY <1>3 DEF Grab, Present, InDir, IInv, TypeOK
  <2>2. InDir' = InDir \ {x}
    BY <2>1 DEF IInv, TypeOK, Places, InDir, Present
  <2> QED
    BY <2>1, <2>2
<1>4. ASSUME NEW r \in Readers, UnlinkRefused(r)
      PROVE  Queue!Next \/ UNCHANGED <<InDir, claimed, lost>>
  <2> DEFINE x == dir[chosen[r]]
  <2>1. /\ chosen[r] \in Names
        /\ dir' = [dir EXCEPT ![chosen[r]] = None]
        /\ claimed' = claimed /\ lost' = lost \cup ({x} \ {None})
    BY <1>4 DEF UnlinkRefused, IInv, Hands
  <2>2. InDir' = InDir \ {x}
    BY <2>1 DEF IInv, TypeOK, Places, InDir, Present
  <2>3. CASE x = None
    <3>1. None \notin InDir
      BY DEF InDir, Present
    <3> QED
      BY <2>1, <2>2, <2>3, <3>1
  <2>4. CASE x # None
    <3>1. x \in Packets /\ x \in InDir
      BY <2>1, <2>4 DEF IInv, TypeOK, InDir, Present
    <3> QED
      BY <2>1, <2>2, <2>4, <3>1
  <2> QED
    BY <2>3, <2>4
<1>5. \/ UNCHANGED <<dir, claimed, lost>>
      \/ \E w \in Writers : Publish(w)
      \/ \E r \in Readers : Grab(r) \/ UnlinkRefused(r)
  BY DEF Next, vars, wvars, rvars, OpenIn, WriterStep, FillIn, FailWrite,
         CrashWriter, ReaderStep, Scan, Miss, Refused, ReadOut, FailRead,
         Remove, CrashReader
<1> QED
  BY <1>1, <1>2, <1>3, <1>4, <1>5

(***************************************************************************)
(* The spool implements the queue that its users expect: packets are       *)
(* handed out once, and a lost packet stays lost.                          *)
(***************************************************************************)
THEOREM SpoolIsQueue == Spec => IsQueue
<1>1. Init => Queue!Init
  BY DEF Init, Queue!Init, InDir, Present
<1> QED
  BY <1>1, InvInit, InvNext, StepOfQueue, PTL DEF Spec, IsQueue, Queue!Spec
=============================================================================

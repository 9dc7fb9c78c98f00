---------------------------- MODULE RunLogProofs ----------------------------
(***************************************************************************)
(* The properties of RunLog, for all participants, times and bounds and    *)
(* both score systems.  What is told of numbers (lists, replies, the       *)
(* judging of participants) assumes archives by number, ~UuidStore; the    *)
(* rest holds for both ways to store runs.                                 *)
(*                                                                         *)
(* KeptLog and KeptEvents tie the user table, the records and the events   *)
(* together: a user has a start time exactly when he has a start record    *)
(* with that time, and a stop event lies where his start and Duration put  *)
(* it.  Later sections add, one on top of the other, KeptStops (one record *)
(* of a stop for each user), KeptOrder (records in order of time),         *)
(* Answered and ListsKept.                                                 *)
(***************************************************************************)
EXTENDS RunLog, FiniteSetTheorems, WellFoundedInduction, TLAPS

KeptLog ==
    /\ \A n \in Present : runs[n].time \in 1 .. now /\ runs[n].user \in Users
    /\ \A n \in Numbers : runs[n].id # 0 <=> runs[n].status \notin Pseudo
    /\ \A u \in Users : start[u] # 0 =>
          \E n \in Own(u) : runs[n].status = "VSTART" /\ runs[n].time = start[u]
    /\ \A u \in Users : \A n \in Own(u) :
          runs[n].status = "VSTART" => runs[n].time = start[u]

KeptEvents ==
    \A e \in events : e.type = "stop" =>
        start[e.user] # 0 /\ e.time = start[e.user] + Duration

IInv == TypeOK /\ FilesFollowLog /\ KeptLog /\ KeptEvents

-----------------------------------------------------------------------------
(* Least and Greatest                                                      *)

LEMMA LeastOf ==
    ASSUME NEW S, S \subseteq Nat, S # {}
    PROVE  Least(S) \in S /\ \A m \in S : Least(S) <= m
<1>1. \E n \in S : \A m \in S : n <= m
  <2>1. PICK n \in S : \A m \in S : ~(<<m, n>> \in OpToRel(<, Nat))
    BY NatLessThanWellFounded, WFMin
  <2>2. \A m \in S : ~(m < n)
    BY <2>1 DEF OpToRel
  <2> QED
    BY <2>2
<1> QED
  BY <1>1 DEF Least

LEMMA GreatestOf ==
    ASSUME NEW k \in Nat, NEW S, S \subseteq 0 .. k, S # {}
    PROVE  Greatest(S) \in S /\ \A m \in S : Greatest(S) >= m
<1> DEFINE T == {k - m : m \in S}
<1>0. \A m \in S : m \in Nat /\ m <= k /\ k - m \in Nat
  OBVIOUS
<1>1. T \subseteq Nat /\ T # {}
  BY <1>0
<1>2. Least(T) \in T /\ \A l \in T : Least(T) <= l
  BY <1>1, LeastOf
<1>3. PICK n \in S : Least(T) = k - n
  BY <1>2
<1>4. ASSUME NEW m \in S PROVE n >= m
  <2>1. k - m \in T
    OBVIOUS
  <2>2. k - n <= k - m
    BY <1>2, <1>3, <2>1
  <2> QED
    BY <1>0, <2>2
<1>5. \E n1 \in S : \A m \in S : n1 >= m
  BY <1>4
<1> QED
  BY <1>5 DEF Greatest

\* With 0 for the empty set, as in the table of uuids
LEMMA GreatestType ==
    ASSUME NEW k \in Nat, NEW S, S \subseteq 1 .. k
    PROVE  /\ Greatest(S) \in 0 .. k
           /\ Greatest(S) # 0 <=> S # {}
           /\ Greatest(S) # 0 => Greatest(S) \in S
<1>1. CASE S = {}
  BY <1>1 DEF Greatest
<1>2. CASE S # {}
  <2>1. S \subseteq 0 .. k
    OBVIOUS
  <2>2. Greatest(S) \in S
    BY <1>2, <2>1, GreatestOf
  <2>3. Greatest(S) \in 1 .. k
    BY <2>2
  <2>4. Greatest(S) \in 0 .. k /\ Greatest(S) # 0
    BY <2>3
  <2> QED
    BY <1>2, <2>2, <2>4
<1> QED
  BY <1>1, <1>2

LEMMA InvInit == Init => IInv
<1> SUFFICES ASSUME Init PROVE IInv
  OBVIOUS
<1>1. Empty \in Entries
  BY RunLogAssumption DEF Empty, Entries, Statuses, Pseudo, Times, Judges
<1>2. TypeOK
  BY <1>1, RunLogAssumption DEF Init, TypeOK, Times, Judges
<1>3. Present = {} /\ Submitted = {}
  BY DEF Init, Present, Submitted, Empty
<1>4. KeptLog /\ KeptEvents
  BY <1>3 DEF Init, KeptLog, KeptEvents, Own, Empty, Pseudo
<1> QED
  BY <1>2, <1>3, <1>4 DEF IInv, FilesFollowLog

-----------------------------------------------------------------------------
(* Insertion                                                               *)

LEMMA PositionType ==
    ASSUME TypeOK, NEW t
    PROVE  Position(t) \in 1 .. used + 1
<1> DEFINE later == {n \in Present : runs[n].time > t}
<1>1. later \subseteq 1 .. used
  BY RunLogAssumption DEF TypeOK, Present, Numbers, Empty
<1>2. used \in Nat
  BY RunLogAssumption DEF TypeOK
<1>3. CASE later = {}
  BY <1>2, <1>3 DEF Position
<1>4. CASE later # {}
  <2>1. Least(later) \in later
    BY <1>1, <1>2, <1>4, LeastOf
  <2> QED
    BY <1>1, <1>2, <1>4, <2>1 DEF Position
<1> QED
  BY <1>3, <1>4

\* The records are the old ones in their order and the new one.
LEMMA InsertedRecords ==
    ASSUME TypeOK, NEW s \in {"VSTART", "VSTOP"}, NEW u \in Users,
           NEW t \in Nat, used < MaxLog, Insert(s, u, t)
    PROVE  LET n == Position(t)
               e == [status |-> s, user |-> u, id |-> 0, time |-> t, judge |-> 0]
           IN  /\ n \in Numbers /\ runs'[n] = e
               /\ \A m \in Numbers : m < n => runs'[m] = runs[m]
               /\ \A m \in Numbers : m > n => m - 1 \in Numbers /\ runs'[m] = runs[m - 1]
               /\ \A m \in Numbers : m >= n /\ m <= used =>
                     m + 1 \in Numbers /\ runs'[m + 1] = runs[m]
<1> DEFINE n == Position(t)
           e == [status |-> s, user |-> u, id |-> 0, time |-> t, judge |-> 0]
<1>1. n \in 1 .. used + 1 /\ used \in 0 .. MaxLog /\ MaxLog \in Nat
  BY PositionType, RunLogAssumption DEF TypeOK
<1>2. n \in Numbers
  BY <1>1 DEF Numbers
<1>3. runs' = [m \in Numbers |-> IF m < n THEN runs[m]
                                 ELSE IF m = n THEN e ELSE runs[m - 1]]
  BY DEF Insert, Inserted
<1>4. \A m \in Numbers : m > n => m - 1 \in Numbers
  BY <1>1 DEF Numbers
<1>5. \A m \in Numbers : m >= n /\ m <= used => m + 1 \in Numbers
  BY <1>1 DEF Numbers
<1>6. \A m \in Numbers : m \in Nat
  BY DEF Numbers
<1>7. \A m \in Numbers : m > n => runs'[m] = runs[m - 1]
  BY <1>1, <1>3, <1>6
<1>8. ASSUME NEW m \in Numbers, m >= n, m <= used
      PROVE  runs'[m + 1] = runs[m]
  <2>1. m + 1 \in Numbers /\ m + 1 > n /\ (m + 1) - 1 = m
    BY <1>1, <1>5, <1>6, <1>8
  <2> QED
    BY <1>7, <2>1
<1> QED
  BY <1>1, <1>2, <1>3, <1>4, <1>5, <1>6, <1>7, <1>8

LEMMA InsertTypes ==
    ASSUME TypeOK, NEW s \in {"VSTART", "VSTOP"}, NEW u \in Users,
           NEW t \in Nat, used < MaxLog, Insert(s, u, t)
    PROVE  /\ runs' \in [Numbers -> Entries] /\ used' \in 0 .. MaxLog
           /\ \A m \in Numbers : m > used' => runs'[m] = Empty
           /\ file' \in [Numbers -> 0 .. MaxRuns]
           /\ list' \in [Users -> (SUBSET Numbers) \cup {None}]
<1> DEFINE n == Position(t)
           e == [status |-> s, user |-> u, id |-> 0, time |-> t, judge |-> 0]
<1>1. n \in 1 .. used + 1 /\ used \in 0 .. MaxLog /\ MaxLog \in Nat
  BY PositionType, RunLogAssumption DEF TypeOK
<1>2. e \in Entries
  BY RunLogAssumption DEF Entries, Statuses, Pseudo, Times, Judges
<1>3. runs' = [m \in Numbers |-> IF m < n THEN runs[m]
                                 ELSE IF m = n THEN e ELSE runs[m - 1]]
  BY DEF Insert, Inserted
<1>4. \A m \in Numbers : m > n => m - 1 \in Numbers /\ runs'[m] = runs[m - 1]
  BY InsertedRecords
<1>5. runs' \in [Numbers -> Entries]
  <2>1. \A m \in Numbers : m < n \/ m = n \/ m > n
    BY <1>1 DEF Numbers
  <2>2. \A m \in Numbers : runs'[m] \in Entries
    BY <1>2, <1>3, <1>4, <2>1 DEF TypeOK
  <2> QED
    BY <1>3, <2>2
<1>6. used' = used + 1
  BY DEF Insert
<1>7. \A m \in Numbers : m > used' => runs'[m] = Empty
  <2> TAKE m \in Numbers
  <2> HAVE m > used'
  <2>1. m > n /\ m - 1 > used
    BY <1>1, <1>6 DEF Numbers
  <2> QED
    BY <1>4, <2>1 DEF TypeOK
<1>8. file' \in [Numbers -> 0 .. MaxRuns]
  <2>1. MovedFrom(n) \subseteq n .. used
    BY DEF MovedFrom
  <2>2. \A k \in n .. used : k \in Numbers
    BY <1>1 DEF Numbers
  <2>3. 0 \in 0 .. MaxRuns
    BY RunLogAssumption
  <2>4. file' = MovedFiles(n)
    BY DEF Insert
  <2> QED
    BY <2>1, <2>2, <2>3, <2>4 DEF MovedFiles, TypeOK
<1>9. list' \in [Users -> (SUBSET Numbers) \cup {None}]
  BY DEF Insert, Forget, TypeOK
<1> QED
  BY <1>1, <1>5, <1>6, <1>7, <1>8, <1>9

\* Files move with their records: serve_move_files_to_insert_run.
LEMMA InsertFiles ==
    ASSUME TypeOK, FilesFollowLog, NEW s \in {"VSTART", "VSTOP"},
           NEW u \in Users, NEW t \in Nat, used < MaxLog, Insert(s, u, t)
    PROVE  FilesFollowLog'
<1> SUFFICES ASSUME ~UuidStore, NEW m \in Numbers, runs'[m].id # 0
             PROVE  file'[m] = runs'[m].id
  BY DEF FilesFollowLog, Submitted
<1> DEFINE n == Position(t)
<1>1. n \in 1 .. used + 1 /\ used \in 0 .. MaxLog /\ MaxLog \in Nat
  BY PositionType, RunLogAssumption DEF TypeOK
<1>2. MovedFrom(n) = n .. used
  BY DEF MovedFrom
<1>3. file' = [k \in Numbers |-> IF k > n /\ k - 1 \in n .. used THEN file[k - 1]
                                 ELSE IF k \in n .. used THEN 0 ELSE file[k]]
  BY <1>2 DEF Insert, MovedFiles
<1>4. m # n
  <2> DEFINE e == [status |-> s, user |-> u, id |-> 0, time |-> t, judge |-> 0]
  <2>1. runs'[n] = e
    BY InsertedRecords
  <2> QED
    BY <2>1
<1>5. m \in Nat
  BY DEF Numbers
<1>6. CASE m < n
  <2>1. runs'[m] = runs[m]
    BY <1>6, InsertedRecords
  <2>2. ~(m > n) /\ ~(m \in n .. used)
    BY <1>1, <1>5, <1>6
  <2>3. file'[m] = file[m]
    BY <1>3, <2>2
  <2> QED
    BY <2>1, <2>3 DEF FilesFollowLog, Submitted
<1>7. CASE m > n
  <2>1. m - 1 \in Numbers /\ runs'[m] = runs[m - 1]
    BY <1>7, InsertedRecords
  <2>2. m - 1 <= used
    BY <2>1 DEF TypeOK, Empty, Numbers
  <2>3. file'[m] = file[m - 1]
    BY <1>1, <1>3, <1>5, <1>7, <2>2
  <2> QED
    BY <2>1, <2>3 DEF FilesFollowLog, Submitted
<1> QED
  BY <1>1, <1>4, <1>5, <1>6, <1>7

\* A start or a stop that is put in leaves each user one time of his start.
LEMMA InsertKept ==
    ASSUME TypeOK, KeptLog, NEW s \in {"VSTART", "VSTOP"}, NEW u \in Users,
           NEW t \in 1 .. now, used < MaxLog, Insert(s, u, t), now' = now,
           \/ s = "VSTOP" /\ start' = start
           \/ s = "VSTART" /\ start[u] = 0 /\ start' = [start EXCEPT ![u] = t]
    PROVE  KeptLog'
<1> DEFINE n == Position(t)
           e == [status |-> s, user |-> u, id |-> 0, time |-> t, judge |-> 0]
<1>0. t \in Nat /\ now \in Nat
  BY RunLogAssumption DEF TypeOK
<1>a. /\ n \in Numbers /\ runs'[n] = e
      /\ \A m \in Numbers : m < n => runs'[m] = runs[m]
      /\ \A m \in Numbers : m > n => m - 1 \in Numbers /\ runs'[m] = runs[m - 1]
      /\ \A m \in Numbers : m >= n /\ m <= used =>
            m + 1 \in Numbers /\ runs'[m + 1] = runs[m]
  BY <1>0, InsertedRecords
<1>1. n \in Numbers /\ runs'[n] = e
  BY <1>a
<1>2. \A m \in Numbers : m < n => runs'[m] = runs[m]
  BY <1>a
<1>3. \A m \in Numbers : m > n => m - 1 \in Numbers /\ runs'[m] = runs[m - 1]
  BY <1>a
<1>4. \A m \in Numbers : m >= n /\ m <= used =>
         m + 1 \in Numbers /\ runs'[m + 1] = runs[m]
  BY <1>a
<1>5. \A m \in Numbers : m < n \/ m = n \/ m > n
  BY <1>1 DEF Numbers
<1>12. \A m \in Numbers : m < n \/ m >= n
  BY <1>1 DEF Numbers
<1> HIDE DEF n
<1>6. \A m \in Numbers : m # n => \E k \in Numbers : runs'[m] = runs[k]
  BY <1>2, <1>3, <1>5
<1>7. \A m \in Present : \E k \in Numbers : runs'[k] = runs[m]
  <2> TAKE m \in Present
  <2>1. m \in Numbers /\ m <= used
    BY RunLogAssumption DEF Present, TypeOK, Numbers, Empty
  <2> QED
    BY <1>2, <1>4, <1>12, <2>1
<1>8. \A m \in Numbers : runs'[m].status # "EMPTY" =>
         runs'[m].time \in 1 .. now' /\ runs'[m].user \in Users
  BY <1>1, <1>6 DEF KeptLog, Present
<1>9. \A m \in Numbers : runs'[m].id # 0 <=> runs'[m].status \notin Pseudo
  <2>1. runs'[n].id = 0 /\ runs'[n].status \in Pseudo
    BY <1>1 DEF Pseudo
  <2> QED
    BY <1>6, <2>1 DEF KeptLog
<1>10. ASSUME NEW v \in Users, start'[v] # 0
       PROVE  \E k \in Numbers : /\ runs'[k].status = "VSTART"
                                  /\ runs'[k].user = v /\ runs'[k].time = start'[v]
  <2>1. CASE s = "VSTART" /\ v = u
    BY <1>1, <2>1 DEF TypeOK
  <2>2. CASE ~(s = "VSTART" /\ v = u)
    <3>1. start'[v] = start[v]
      BY <2>2 DEF TypeOK
    <3>2. PICK m \in Own(v) : runs[m].status = "VSTART" /\ runs[m].time = start[v]
      BY <1>10, <3>1 DEF KeptLog
    <3>3. m \in Present /\ runs[m].user = v
      BY DEF Own
    <3> QED
      BY <1>7, <3>1, <3>2, <3>3
  <2> QED
    BY <2>1, <2>2
<1>11. ASSUME NEW v \in Users, NEW m \in Numbers, runs'[m].user = v,
              runs'[m].status = "VSTART"
       PROVE  runs'[m].time = start'[v]
  <2>1. CASE m = n
    BY <1>1, <1>11, <2>1 DEF TypeOK
  <2>2. CASE m # n
    <3>1. PICK k \in Numbers : runs'[m] = runs[k]
      BY <1>6, <2>2
    <3>2. k \in Own(v) /\ runs[k].status = "VSTART" /\ runs[k].time \in 1 .. now
      BY <1>11, <3>1 DEF Own, Present, KeptLog
    <3>3. runs[k].time = start[v] /\ start[v] # 0
      BY <1>0, <3>2 DEF KeptLog
    <3>4. start'[v] = start[v]
      BY <3>3 DEF TypeOK
    <3> QED
      BY <3>1, <3>3, <3>4
  <2> QED
    BY <2>1, <2>2
<1> QED
  BY <1>8, <1>9, <1>10, <1>11 DEF KeptLog, Present, Own

-----------------------------------------------------------------------------
(* Records in place                                                        *)

SameRecord(m) ==
    /\ runs'[m].user = runs[m].user
    /\ runs'[m].time = runs[m].time
    /\ runs'[m].id = runs[m].id
    /\ \/ runs'[m].status = runs[m].status
       \/ runs[m].status \notin Pseudo /\ runs'[m].status \notin Pseudo

\* Judging changes the status of submits and nothing that KeptLog is about.
LEMMA SameKept ==
    ASSUME TypeOK, KeptLog, start' = start, now' \in Nat, now <= now',
           \A m \in Numbers : SameRecord(m)
    PROVE  KeptLog'
<1>1. now \in Nat
  BY RunLogAssumption DEF TypeOK
<1>2. \A m \in Numbers : /\ runs'[m].status = "EMPTY" <=> runs[m].status = "EMPTY"
                         /\ runs'[m].status = "VSTART" <=> runs[m].status = "VSTART"
                         /\ runs'[m].status \in Pseudo <=> runs[m].status \in Pseudo
  BY DEF SameRecord, Pseudo
<1>3. Present' = Present
  BY <1>2 DEF Present
<1>4. \A u : Own(u)' = Own(u)
  BY <1>3 DEF Own, SameRecord, Present
<1>5. \A n \in Present' : runs'[n].time \in 1 .. now' /\ runs'[n].user \in Users
  <2> TAKE n \in Present'
  <2>1. n \in Numbers /\ runs[n].time \in 1 .. now /\ runs[n].user \in Users
    BY <1>3 DEF Present, KeptLog
  <2> QED
    BY <1>1, <2>1 DEF SameRecord
<1>6. \A n \in Numbers : runs'[n].id # 0 <=> runs'[n].status \notin Pseudo
  BY <1>2 DEF SameRecord, KeptLog
<1>7. \A u \in Users : Own(u) \subseteq Numbers
  BY DEF Own, Present
<1>8. \A u \in Users : start'[u] # 0 =>
         \E n \in Own(u)' : runs'[n].status = "VSTART" /\ runs'[n].time = start'[u]
  BY <1>2, <1>4, <1>7 DEF SameRecord, KeptLog
<1>9. \A u \in Users : \A n \in Own(u)' :
         runs'[n].status = "VSTART" => runs'[n].time = start'[u]
  BY <1>2, <1>4, <1>7 DEF SameRecord, KeptLog
<1> QED
  BY <1>5, <1>6, <1>8, <1>9 DEF KeptLog

LEMMA SameFiles ==
    ASSUME FilesFollowLog, file' = file, \A m \in Numbers : SameRecord(m)
    PROVE  FilesFollowLog'
BY DEF FilesFollowLog, Submitted, SameRecord

LEMMA SameRuns ==
    ASSUME runs' = runs
    PROVE  \A m \in Numbers : SameRecord(m)
BY DEF SameRecord

-----------------------------------------------------------------------------
(* Each step keeps the invariant                                           *)

LEMMA NumbersOfRecords ==
    ASSUME TypeOK
    PROVE  /\ Present \subseteq Numbers /\ \A n \in Present : n <= used
           /\ KeptLog => Submitted \subseteq Present
<1>1. \A n \in Numbers : runs[n].status # "EMPTY" => n <= used
  BY RunLogAssumption DEF TypeOK, Numbers, Empty
<1> QED
  BY <1>1 DEF Present, Submitted, KeptLog, Pseudo

LEMMA RoomForOne ==
    ASSUME TypeOK, NEW k \in Nat \ {0}, Room(k)
    PROVE  used < MaxLog
<1> DEFINE open == {u \in Users : start[u] # 0
                      /\ \A n \in Own(u) : runs[n].status # "VSTOP"}
<1>1. open \subseteq Users
  OBVIOUS
<1>2. IsFiniteSet(open)
  BY <1>1, FS_Subset, RunLogAssumption
<1>3. Cardinality(open) \in Nat
  BY <1>2, FS_CardinalityType
<1>4. used \in Nat /\ MaxLog \in Nat
  BY RunLogAssumption DEF TypeOK
<1>5. used + Cardinality(open) + k <= MaxLog
  BY DEF Room
<1> HIDE DEF open
<1> QED
  BY <1>3, <1>4, <1>5

LEMMA TypesOfTime ==
    ASSUME TypeOK
    PROVE  /\ now \in Nat \ {0} /\ Duration \in Nat \ {0}
           /\ \A u \in Users : /\ start[u] \in Nat /\ stop[u] \in Nat
                               /\ CurrentStop(u) \in Nat
BY RunLogAssumption DEF TypeOK, Times, CurrentStop

\* get_user_entry makes a list of numbers.
LEMMA ListTypes ==
    ASSUME TypeOK, NEW u \in Users
    PROVE  /\ ListOf(u) \subseteq Numbers
           /\ GetUserEntry(u) => list' \in [Users -> (SUBSET Numbers) \cup {None}]
<1>1. Listed(u) \subseteq Numbers
  BY DEF Listed, Own, Present
<1>2. ListOf(u) \subseteq Numbers
  BY <1>1 DEF ListOf, TypeOK
<1> QED
  BY <1>2 DEF GetUserEntry, TypeOK

LEMMA StepRestart == IInv /\ Restart => IInv'
<1> SUFFICES ASSUME IInv, Restart PROVE IInv'
  OBVIOUS
<1> USE DEF IInv
<1> DEFINE of(u, s) == Greatest({n \in Own(u) : runs[n].status = s})
           time(n) == IF n = 0 THEN 0 ELSE runs[n].time
           open == {u \in Users : of(u, "VSTART") # 0 /\ of(u, "VSTOP") = 0}
<1>1. \A u \in Users, s \in Pseudo :
         /\ of(u, s) \in 0 .. MaxLog
         /\ of(u, s) # 0 => of(u, s) \in Own(u) /\ runs[of(u, s)].status = s
         /\ of(u, s) = 0 => \A n \in Own(u) : runs[n].status # s
  <2> TAKE u \in Users, s \in Pseudo
  <2> DEFINE S == {n \in Own(u) : runs[n].status = s}
  <2>1. S \subseteq 1 .. MaxLog
    BY DEF Own, Present, Numbers
  <2>2. MaxLog \in Nat
    BY RunLogAssumption
  <2>3. /\ Greatest(S) \in 0 .. MaxLog
        /\ Greatest(S) # 0 <=> S # {}
        /\ Greatest(S) # 0 => Greatest(S) \in S
    BY <2>1, <2>2, GreatestType
  <2> QED
    BY <2>3
<1>2. "VSTART" \in Pseudo /\ "VSTOP" \in Pseudo
  BY DEF Pseudo
<1>3. start' = [u \in Users |-> time(of(u, "VSTART"))]
      /\ stop' = [u \in Users |-> time(of(u, "VSTOP"))]
  BY DEF Restart
<1>4. events' = {[type |-> "stop", user |-> u,
                  time |-> time(of(u, "VSTART")) + Duration] : u \in open}
  BY DEF Restart
<1> HIDE DEF of
<1>5. \A u \in Users : time(of(u, "VSTART")) = start[u]
  <2> TAKE u \in Users
  <2>1. CASE of(u, "VSTART") = 0
    <3>1. start[u] = 0
      BY <1>1, <1>2, <2>1 DEF KeptLog
    <3> QED
      BY <2>1, <3>1
  <2>2. CASE of(u, "VSTART") # 0
    BY <1>1, <1>2, <2>2 DEF KeptLog
  <2> QED
    BY <2>1, <2>2
<1>6. start' = start
  BY <1>3, <1>5 DEF TypeOK
<1>7. \A u \in open : u \in Users /\ start[u] # 0
  <2> TAKE u \in open
  <2>1. u \in Users /\ of(u, "VSTART") \in Own(u)
    BY <1>1, <1>2
  <2>2. time(of(u, "VSTART")) \in 1 .. now /\ 0 \notin Numbers
    BY <2>1 DEF Own, KeptLog, Present, Numbers
  <2> QED
    BY <1>5, <2>1, <2>2
<1>8. KeptEvents'
  BY <1>4, <1>5, <1>6, <1>7 DEF KeptEvents
<1>9. runs' = runs /\ now' = now /\ file' = file /\ used' = used
  BY DEF Restart, log
<1>10. KeptLog' /\ FilesFollowLog'
  BY <1>6, <1>9, SameRuns, SameKept, SameFiles, TypesOfTime
<1>11. stop' \in [Users -> Times]
  <2>1. \A n \in 0 .. MaxLog : time(n) \in Nat
    BY RunLogAssumption DEF TypeOK, Numbers, Entries, Times
  <2> QED
    BY <1>1, <1>2, <1>3, <2>1 DEF Times
<1>12. events' \subseteq Events
  <2>1. \A u \in open : start[u] + Duration \in Nat
    BY <1>7, TypesOfTime
  <2> QED
    BY <1>4, <1>5, <1>7, <2>1 DEF Events, Times
<1>13. hash' \in [Ids -> 0 .. MaxLog]
  <2>1. MaxLog \in Nat
    BY RunLogAssumption
  <2>2. \A i \in Ids : {n \in Present : runs[n].id = i} \subseteq 1 .. MaxLog
    BY DEF Present, Numbers
  <2>3. \A i \in Ids : Greatest({n \in Present : runs[n].id = i}) \in 0 .. MaxLog
    BY <2>1, <2>2, GreatestType
  <2> QED
    BY <2>1, <2>3 DEF Restart
<1>14. list' \in [Users -> (SUBSET Numbers) \cup {None}] /\ ops' \in 0 .. MaxOps
  BY RunLogAssumption DEF Restart, TypeOK
<1>15. UNCHANGED <<runs, used, file, replies, now, submits, asked, skipped>>
  BY DEF Restart, log
<1>16. TypeOK'
  BY <1>6, <1>11, <1>12, <1>13, <1>14, <1>15 DEF TypeOK
<1> QED
  BY <1>8, <1>10, <1>16

LEMMA StepHandleStop ==
    ASSUME NEW e \in events
    PROVE  IInv /\ HandleStop(e) => IInv'
<1> SUFFICES ASSUME IInv, HandleStop(e) PROVE IInv'
  OBVIOUS
<1> USE DEF IInv
<1>1. /\ e \in Events /\ e.type = "stop" /\ e.user \in Users
      /\ e.time = start[e.user] + Duration /\ e.time \in 1 .. now
  <2>1. e \in Events /\ e.type = "stop" /\ e.time <= now
    BY DEF HandleStop, First, Due, TypeOK
  <2>2. e.user \in Users /\ e.time = start[e.user] + Duration
    BY <2>1 DEF Events, KeptEvents
  <2> QED
    BY <2>1, <2>2, TypesOfTime
<1>2. UNCHANGED <<start, hash, replies, now, submits, asked, skipped, ops>>
  BY DEF HandleStop, counts
<1>3. CASE MayStop(e.user, e.time)
  <2>1. used < MaxLog /\ Insert("VSTOP", e.user, e.time)
    BY <1>3 DEF HandleStop
  <2>2. stop' = [stop EXCEPT ![e.user] = e.time]
    BY <1>3 DEF HandleStop
  <2>3. events' = (events \ {e}) \cup JudgeEvents(e.user, e.time + 1)
    BY <1>3 DEF HandleStop
  <2>4. e.time \in Nat
    BY <1>1
  <2>5. \A f \in JudgeEvents(e.user, e.time + 1) : f \in Events /\ f.type = "judge"
    BY <1>1, <2>4 DEF JudgeEvents, Events, Times
  <2>6. TypeOK'
    BY <1>1, <1>2, <2>1, <2>2, <2>3, <2>4, <2>5, InsertTypes DEF TypeOK, Times
  <2>7. FilesFollowLog'
    BY <1>1, <2>1, <2>4, InsertFiles
  <2>8. KeptLog'
    BY <1>1, <1>2, <2>1, InsertKept
  <2>9. KeptEvents'
    BY <1>2, <2>3, <2>5 DEF KeptEvents
  <2> QED
    BY <2>6, <2>7, <2>8, <2>9
<1>4. CASE ~MayStop(e.user, e.time)
  <2>1. GetUserEntry(e.user) /\ events' = events \ {e}
        /\ UNCHANGED <<runs, used, stop, file>>
    BY <1>4 DEF HandleStop, log
  <2>2. list' \in [Users -> (SUBSET Numbers) \cup {None}]
    BY <1>1, <2>1, ListTypes
  <2>3. TypeOK'
    BY <1>2, <2>1, <2>2 DEF TypeOK
  <2>4. KeptLog' /\ FilesFollowLog'
    BY <1>2, <2>1, SameRuns, SameKept, SameFiles, TypesOfTime
  <2>5. KeptEvents'
    BY <1>2, <2>1 DEF KeptEvents
  <2> QED
    BY <2>3, <2>4, <2>5
<1> QED
  BY <1>3, <1>4

\* A submit becomes RUNNING or OK and may get a number to judge by.
LEMMA JudgedRecord ==
    ASSUME TypeOK, KeptLog, NEW n \in Numbers, runs[n].status \notin Pseudo,
           NEW s \in {"RUNNING", "OK", "SKIPPED"}, NEW j \in Judges,
           runs' = [runs EXCEPT ![n].status = s, ![n].judge = j]
    PROVE  /\ runs' \in [Numbers -> Entries] /\ n <= used
           /\ \A m \in Numbers : m > used => runs'[m] = Empty
           /\ \A m \in Numbers : SameRecord(m)
<1>1. n <= used
  BY RunLogAssumption DEF TypeOK, Numbers, Empty, Pseudo
<1>2. s \in Statuses /\ s \notin Pseudo
  BY DEF Statuses, Pseudo
<1>3. runs'[n] \in Entries
  BY <1>2 DEF TypeOK, Entries
<1>4. \A m \in Numbers : m # n => runs'[m] = runs[m]
  BY DEF TypeOK
<1>5. runs' \in [Numbers -> Entries]
  BY <1>3, <1>4 DEF TypeOK
<1>6. \A m \in Numbers : m > used => runs'[m] = Empty
  BY <1>1, <1>4, RunLogAssumption DEF TypeOK, Numbers
<1>7. SameRecord(n)
  BY <1>2 DEF SameRecord, TypeOK, Entries
<1> QED
  BY <1>1, <1>4, <1>5, <1>6, <1>7 DEF SameRecord

LEMMA JudgeUserTypes ==
    ASSUME IInv, NEW u \in Users, NEW vs \in Present, JudgeUser(u, vs)
    PROVE  /\ runs' \in [Numbers -> Entries]
           /\ \A m \in Numbers : m > used => runs'[m] = Empty
           /\ \A m \in Numbers : SameRecord(m)
           /\ asked' \in Judges /\ replies' \subseteq Replies
<1> USE DEF IInv
<1> DEFINE m == ToJudge(u)
           S == {k \in Own(u) :
                  /\ runs[k].status = "OK"
                  /\ \E n \in Own(u) : n < k /\ runs[n].status = "VSTART"
                  /\ \E n \in Own(u) : n > k /\ runs[n].status = "VSTOP"}
<1>1. m \in 0 .. MaxLog /\ (m # 0 => m \in Present /\ runs[m].status = "OK")
  <2>1. S \subseteq 1 .. MaxLog /\ MaxLog \in Nat
    BY RunLogAssumption DEF Own, Present, Numbers
  <2>2. m = Greatest(S)
    BY DEF ToJudge
  <2>3. Greatest(S) \in 0 .. MaxLog /\ (Greatest(S) # 0 => Greatest(S) \in S)
    BY <2>1, GreatestType
  <2>4. \A k \in S : k \in Present /\ runs[k].status = "OK"
    BY DEF Own
  <2> QED
    BY <2>2, <2>3, <2>4
<1>2. runs' = [n \in Numbers |->
                 IF n = vs THEN [runs[n] EXCEPT !.judge = 1]
                 ELSE IF n = m
                 THEN [runs[n] EXCEPT !.status = "RUNNING", !.judge = asked + 1]
                 ELSE runs[n]]
  BY DEF JudgeUser
<1>3. IF m = 0 THEN UNCHANGED <<replies, asked>>
      ELSE replies' = replies \cup {Asked(m)} /\ asked' = asked + 1
  BY DEF JudgeUser
<1> HIDE DEF m, S
<1>4. asked \in Nat /\ asked + 1 \in Nat /\ 1 \in Nat
  BY DEF TypeOK, Judges
<1>5. "RUNNING" \in Statuses /\ "RUNNING" \notin Pseudo /\ "OK" \notin Pseudo
  BY DEF Statuses, Pseudo
<1>6. \A n \in Numbers : runs'[n] \in Entries
  BY <1>2, <1>4, <1>5 DEF TypeOK, Entries, Judges
<1>7. runs' \in [Numbers -> Entries]
  BY <1>2, <1>6
<1>8. \A n \in Numbers : n > used => runs'[n] = Empty
  <2>1. vs <= used /\ (m # 0 => m <= used) /\ used \in Nat
    BY <1>1, NumbersOfRecords, RunLogAssumption DEF TypeOK
  <2>2. \A n \in Numbers : n > used => n # vs /\ n # m
    BY <1>1, <2>1, NumbersOfRecords DEF Numbers
  <2> QED
    BY <1>2, <2>2 DEF TypeOK
<1>9. \A n \in Numbers : SameRecord(n)
  <2> TAKE n \in Numbers
  <2>0. runs[n] \in Entries /\ n # 0
    BY DEF TypeOK, Numbers
  <2>1. CASE n = vs
    BY <1>2, <2>0, <2>1 DEF SameRecord, Entries
  <2>2. CASE n # vs /\ n = m
    BY <1>1, <1>2, <1>5, <2>0, <2>2 DEF SameRecord, Entries
  <2>3. CASE n # vs /\ n # m
    BY <1>2, <2>3 DEF SameRecord
  <2> QED
    BY <2>1, <2>2, <2>3
<1>10. replies' \subseteq Replies
  <2>1. m # 0 => runs[m].id \in Ids
    BY <1>1, <1>5 DEF KeptLog, TypeOK, Entries, Present, Ids
  <2>2. m # 0 => Asked(m) \in Replies
    BY <1>1, <1>4, <2>1 DEF Asked, Replies, Judges, Present
  <2> QED
    BY <1>3, <2>2 DEF TypeOK
<1> QED
  BY <1>3, <1>4, <1>7, <1>8, <1>9, <1>10 DEF TypeOK, Judges

\* The record that says a participant was judged is the start in his list.
LEMMA StartOfTime ==
    ASSUME TypeOK, NEW u \in Users, HasTime(u)
    PROVE  LET vs == Greatest(InList(u, "VSTART"))
           IN  vs \in Present /\ vs \in ListOf(u) /\ runs[vs].status = "VSTART"
<1> DEFINE vs == Greatest(InList(u, "VSTART"))
<1>1. InList(u, "VSTART") \subseteq 1 .. MaxLog /\ MaxLog \in Nat
  BY ListTypes, RunLogAssumption DEF InList, Numbers
<1>2. InList(u, "VSTART") # {}
  BY DEF HasTime
<1>3. vs # 0 <=> InList(u, "VSTART") # {}
  BY <1>1, GreatestType
<1>4. vs # 0 => vs \in InList(u, "VSTART")
  BY <1>1, GreatestType
<1> QED
  BY <1>2, <1>3, <1>4, ListTypes DEF InList, Present

LEMMA StepHandleJudge ==
    ASSUME NEW e \in events
    PROVE  IInv /\ HandleJudge(e) => IInv'
<1> SUFFICES ASSUME IInv, HandleJudge(e) PROVE IInv'
  OBVIOUS
<1> USE DEF IInv
<1> DEFINE vs == Greatest(InList(e.user, "VSTART"))
<1>1. e.user \in Users
  BY DEF TypeOK, Events
<1>2. CASE ~ListIsOwn(e.user)
  BY <1>2, StepRestart DEF HandleJudge
<1>3. CASE ListIsOwn(e.user)
  <2>1. /\ GetUserEntry(e.user) /\ events' = events \ {e}
        /\ UNCHANGED <<used, start, stop, hash, file, now, submits, skipped, ops>>
        /\ IF HasTime(e.user) /\ runs[vs].judge = 0
           THEN JudgeUser(e.user, vs) ELSE UNCHANGED <<runs, replies, asked>>
    BY <1>3 DEF HandleJudge, table
  <2>2. HasTime(e.user) => vs \in Present
    BY <1>1, StartOfTime
  <2>3. /\ runs' \in [Numbers -> Entries]
        /\ \A m \in Numbers : m > used => runs'[m] = Empty
        /\ \A m \in Numbers : SameRecord(m)
        /\ asked' \in Judges /\ replies' \subseteq Replies
    <3>1. CASE HasTime(e.user) /\ runs[vs].judge = 0
      BY <1>1, <2>1, <2>2, <3>1, JudgeUserTypes
    <3>2. CASE ~(HasTime(e.user) /\ runs[vs].judge = 0)
      BY <2>1, <3>2, SameRuns DEF TypeOK
    <3> QED
      BY <3>1, <3>2
  <2>4. list' \in [Users -> (SUBSET Numbers) \cup {None}]
    BY <1>1, <2>1, ListTypes
  <2>5. TypeOK'
    BY <2>1, <2>3, <2>4 DEF TypeOK
  <2>6. KeptLog' /\ FilesFollowLog'
    BY <2>1, <2>3, SameKept, SameFiles, TypesOfTime
  <2>7. KeptEvents'
    BY <2>1 DEF KeptEvents
  <2> QED
    BY <2>5, <2>6, <2>7
<1> QED
  BY <1>2, <1>3

LEMMA StepView ==
    ASSUME NEW u \in Users
    PROVE  IInv /\ View(u) => IInv'
<1> SUFFICES ASSUME IInv, View(u) PROVE IInv'
  OBVIOUS
<1> USE DEF IInv
<1>1. CASE ~ListIsOwn(u)
  BY <1>1, StepRestart DEF View
<1>2. CASE ListIsOwn(u)
  <2>1. /\ stop' = [stop EXCEPT ![u] = CurrentStop(u)] /\ GetUserEntry(u)
        /\ UNCHANGED <<runs, used, start, hash, file, replies, events, now,
                       submits, asked, skipped, ops>>
    BY <1>2 DEF View, log, counts
  <2>2. TypeOK'
    BY <2>1, ListTypes, TypesOfTime DEF TypeOK, Times
  <2>3. KeptLog' /\ FilesFollowLog'
    BY <2>1, SameRuns, SameKept, SameFiles, TypesOfTime
  <2>4. KeptEvents'
    BY <2>1 DEF KeptEvents
  <2> QED
    BY <2>2, <2>3, <2>4
<1> QED
  BY <1>1, <1>2

LEMMA StepBegin ==
    ASSUME NEW u \in Users, IInv, Begin(u),
           \/ UNCHANGED events
           \/ events' = events \cup
                  {[type |-> "stop", user |-> u, time |-> now + Duration]},
           UNCHANGED <<submits, asked, skipped>>, ops' \in 0 .. MaxOps
    PROVE  IInv'
<1> USE DEF IInv
<1>1. /\ start[u] = 0 /\ Room(2) /\ Insert("VSTART", u, now)
      /\ start' = [start EXCEPT ![u] = now] /\ UNCHANGED <<stop, hash, replies, now>>
  BY DEF Begin
<1>2. used < MaxLog
  BY <1>1, RoomForOne
<1>3. now \in Nat \ {0} /\ now \in 1 .. now
  BY TypesOfTime
<1>4. \A e \in events' \ events :
         e = [type |-> "stop", user |-> u, time |-> now + Duration]
  OBVIOUS
<1>5. events' \subseteq Events
  BY <1>3, <1>4, TypesOfTime DEF TypeOK, Events, Times
<1>6. TypeOK'
  BY <1>1, <1>2, <1>3, <1>5, InsertTypes DEF TypeOK, Times
<1>7. FilesFollowLog'
  BY <1>1, <1>2, <1>3, InsertFiles
<1>8. KeptLog'
  BY <1>1, <1>2, <1>3, InsertKept
<1>9. KeptEvents'
  <2> SUFFICES ASSUME NEW e \in events', e.type = "stop"
               PROVE  start'[e.user] # 0 /\ e.time = start'[e.user] + Duration
    BY DEF KeptEvents
  <2>1. CASE e \in events
    <3>1. start[e.user] # 0 /\ e.time = start[e.user] + Duration /\ e.user # u
      BY <1>1, <2>1 DEF KeptEvents
    <3>2. start'[e.user] = start[e.user]
      BY <1>1, <2>1, <3>1 DEF TypeOK, Events
    <3> QED
      BY <3>1, <3>2
  <2>2. CASE e \notin events
    BY <1>1, <1>3, <1>4, <2>2 DEF TypeOK
  <2> QED
    BY <2>1, <2>2
<1> QED
  BY <1>6, <1>7, <1>8, <1>9

LEMMA StepStarts ==
    ASSUME NEW u \in Users
    PROVE  IInv /\ (VirtualStart(u) \/ ForceStart(u)) => IInv'
<1> SUFFICES ASSUME IInv, VirtualStart(u) \/ ForceStart(u) PROVE IInv'
  OBVIOUS
<1>1. Begin(u) /\ UNCHANGED <<submits, asked, skipped>>
  BY DEF VirtualStart, ForceStart, counts
<1>2. ops' \in 0 .. MaxOps
  BY RunLogAssumption DEF VirtualStart, ForceStart, counts, IInv, TypeOK
<1>3. \/ UNCHANGED events
      \/ events' = events \cup
             {[type |-> "stop", user |-> u, time |-> now + Duration]}
  BY DEF VirtualStart, ForceStart
<1> QED
  BY <1>1, <1>2, <1>3, StepBegin

LEMMA StepVirtualStop ==
    ASSUME NEW u \in Users
    PROVE  IInv /\ VirtualStop(u) => IInv'
<1> SUFFICES ASSUME IInv, VirtualStop(u) PROVE IInv'
  OBVIOUS
<1> USE DEF IInv
<1>1. /\ used < MaxLog /\ Insert("VSTOP", u, now)
      /\ stop' = [stop EXCEPT ![u] = now]
      /\ UNCHANGED <<start, hash, replies, now, submits, asked, skipped, ops>>
  BY DEF VirtualStop, counts
<1>2. now \in Nat \ {0} /\ now \in 1 .. now /\ now + 1 \in Nat
  BY TypesOfTime
<1>3. \A e \in events' : e \notin events => e \in Events /\ e.type = "judge"
  BY <1>2 DEF VirtualStop, JudgeEvents, Events, Times
<1>4. TypeOK'
  BY <1>1, <1>2, <1>3, InsertTypes DEF TypeOK, Times
<1>5. FilesFollowLog'
  BY <1>1, <1>2, InsertFiles
<1>6. KeptLog'
  BY <1>1, <1>2, InsertKept
<1>7. KeptEvents'
  BY <1>1, <1>3 DEF KeptEvents
<1> QED
  BY <1>4, <1>5, <1>6, <1>7

LEMMA StepSubmit ==
    ASSUME NEW u \in Users
    PROVE  IInv /\ Submit(u) => IInv'
<1> SUFFICES ASSUME IInv, Submit(u) PROVE IInv'
  OBVIOUS
<1> USE DEF IInv
<1> DEFINE n == used + 1
           i == submits + 1
           r == [status |-> "RUNNING", user |-> u, id |-> i, time |-> now,
                 judge |-> asked + 1]
<1>1. /\ submits < MaxRuns /\ Room(1)
      /\ runs' = [runs EXCEPT ![n] = r] /\ used' = n
      /\ list' = [list EXCEPT ![u] = ListOf(u) \cup {n}]
      /\ hash' = IF UuidStore THEN [hash EXCEPT ![i] = n] ELSE hash
      /\ file' = IF UuidStore THEN file ELSE [file EXCEPT ![n] = i]
      /\ replies' = replies \cup {[num |-> n, id |-> i, judge |-> asked + 1]}
      /\ submits' = i /\ asked' = asked + 1
      /\ UNCHANGED <<start, stop, events, now, skipped, ops>>
  BY DEF Submit, table
<1>2. n \in Numbers /\ i \in Ids /\ i # 0 /\ used \in Nat
      /\ n \in 0 .. MaxLog /\ i \in 0 .. MaxRuns
  <2>1. used < MaxLog /\ used \in Nat /\ MaxLog \in Nat
    BY <1>1, RoomForOne, RunLogAssumption DEF TypeOK
  <2>2. submits \in Nat /\ MaxRuns \in Nat
    BY RunLogAssumption DEF TypeOK
  <2> QED
    BY <1>1, <2>1, <2>2 DEF Numbers, Ids
<1>3. runs[n] = Empty /\ n \notin Present
  BY <1>2 DEF TypeOK, Present, Empty
<1>4. asked + 1 \in Judges /\ now \in Times /\ now \in 1 .. now
  BY TypesOfTime DEF TypeOK, Judges, Times
<1>5. "RUNNING" \in Statuses /\ "RUNNING" \notin Pseudo
  BY DEF Statuses, Pseudo
<1>6. r \in Entries
  BY <1>2, <1>4, <1>5 DEF Entries
<1> HIDE DEF n, i
<1>7. runs'[n] = r /\ \A m \in Numbers : m # n => runs'[m] = runs[m]
  BY <1>1, <1>2 DEF TypeOK
<1>8. TypeOK'
  <2>1. runs' \in [Numbers -> Entries]
    BY <1>1, <1>6 DEF TypeOK
  <2>2. \A m \in Numbers : m > n => runs'[m] = Empty
    BY <1>2, <1>7 DEF TypeOK, Numbers, n
  <2>3. list' \in [Users -> (SUBSET Numbers) \cup {None}]
    BY <1>1, <1>2, ListTypes DEF TypeOK
  <2>4. hash' \in [Ids -> 0 .. MaxLog] /\ file' \in [Numbers -> 0 .. MaxRuns]
    BY <1>1, <1>2 DEF TypeOK
  <2>5. replies' \subseteq Replies
    BY <1>1, <1>2, <1>4 DEF TypeOK, Replies
  <2> QED
    BY <1>1, <1>2, <1>4, <2>1, <2>2, <2>3, <2>4, <2>5 DEF TypeOK
<1>9. FilesFollowLog'
  <2> SUFFICES ASSUME ~UuidStore, NEW m \in Numbers, runs'[m].id # 0
               PROVE  file'[m] = runs'[m].id
    BY DEF FilesFollowLog, Submitted
  <2>1. CASE m = n
    BY <1>1, <1>7, <2>1 DEF TypeOK
  <2>2. CASE m # n
    BY <1>1, <1>7, <2>2 DEF TypeOK, FilesFollowLog, Submitted
  <2> QED
    BY <2>1, <2>2
<1>10. Present' = Present \cup {n}
  <2>1. runs'[n].status # "EMPTY"
    BY <1>7
  <2> QED
    BY <1>2, <1>7, <2>1 DEF Present
<1>11. KeptLog'
  <2>1. \A m \in Present' : runs'[m].time \in 1 .. now' /\ runs'[m].user \in Users
    BY <1>1, <1>3, <1>4, <1>7, <1>10 DEF KeptLog, Present
  <2>2. \A m \in Numbers : runs'[m].id # 0 <=> runs'[m].status \notin Pseudo
    BY <1>2, <1>5, <1>7 DEF KeptLog
  <2>3. \A v \in Users : Own(v) \subseteq Own(v)' /\ Own(v)' \subseteq Own(v) \cup {n}
    BY <1>3, <1>7, <1>10 DEF Own, Present
  <2>4. \A v \in Users : \A m \in Own(v) : runs'[m] = runs[m]
    BY <1>3, <1>7 DEF Own, Present
  <2>5. \A v \in Users : start'[v] # 0 =>
           \E m \in Own(v)' : runs'[m].status = "VSTART" /\ runs'[m].time = start'[v]
    BY <1>1, <2>3, <2>4 DEF KeptLog
  <2>6. \A v \in Users : \A m \in Own(v)' :
           runs'[m].status = "VSTART" => runs'[m].time = start'[v]
    BY <1>1, <1>7, <2>3, <2>4 DEF KeptLog
  <2> QED
    BY <2>1, <2>2, <2>5, <2>6 DEF KeptLog
<1>12. KeptEvents'
  BY <1>1 DEF KeptEvents
<1> QED
  BY <1>8, <1>9, <1>11, <1>12

LEMMA StepSubmitFails ==
    ASSUME NEW u \in Users
    PROVE  IInv /\ SubmitFails(u) => IInv'
<1> SUFFICES ASSUME IInv, SubmitFails(u) PROVE IInv'
  OBVIOUS
<1> USE DEF IInv
<1>1. /\ Forget({u})
      /\ UNCHANGED <<runs, used, start, stop, hash, file, replies, events, now,
                    submits, asked, skipped, ops>>
  BY DEF SubmitFails, log, table, counts
<1>2. TypeOK'
  BY <1>1 DEF TypeOK, Forget
<1>3. KeptLog' /\ FilesFollowLog'
  BY <1>1, SameRuns, SameKept, SameFiles, TypesOfTime
<1>4. KeptEvents'
  BY <1>1 DEF KeptEvents
<1> QED
  BY <1>2, <1>3, <1>4

LEMMA StepJudge ==
    ASSUME NEW n \in Submitted
    PROVE  IInv /\ (Rejudge(n) \/ Skip(n)) => IInv'
<1> SUFFICES ASSUME IInv, Rejudge(n) \/ Skip(n) PROVE IInv'
  OBVIOUS
<1> USE DEF IInv
<1>1. n \in Numbers /\ runs[n].id \in Ids /\ runs[n].status \notin Pseudo
  BY RunLogAssumption DEF Submitted, KeptLog, TypeOK, Entries, Ids
<1>2. ops' \in 0 .. MaxOps
  BY RunLogAssumption DEF Rejudge, Skip, ByJudge, TypeOK
<1>3. asked \in Judges /\ asked + 1 \in Judges
  BY DEF TypeOK, Judges
<1>4. UNCHANGED <<used, start, stop, list, hash, file, events, now, submits>>
  BY DEF Rejudge, Skip, table
<1>5. CASE Rejudge(n)
  <2>1. /\ runs' = [runs EXCEPT ![n].status = "RUNNING", ![n].judge = asked + 1]
        /\ replies' = replies \cup {Asked(n)} /\ asked' = asked + 1
        /\ skipped' = skipped
    BY <1>5 DEF Rejudge
  <2>2. /\ runs' \in [Numbers -> Entries]
        /\ \A m \in Numbers : m > used => runs'[m] = Empty
        /\ \A m \in Numbers : SameRecord(m)
    BY <1>1, <1>3, <2>1, JudgedRecord
  <2>3. Asked(n) \in Replies
    BY <1>1, <1>3 DEF Asked, Replies
  <2>4. TypeOK'
    BY <1>2, <1>3, <1>4, <2>1, <2>2, <2>3 DEF TypeOK
  <2>5. KeptLog' /\ FilesFollowLog'
    BY <1>4, <2>2, SameKept, SameFiles, TypesOfTime
  <2> QED
    BY <1>4, <2>4, <2>5 DEF KeptEvents
<1>6. CASE Skip(n)
  <2>1. /\ runs' = [runs EXCEPT ![n].status = "SKIPPED"]
        /\ skipped' = skipped \cup {runs[n].id} /\ UNCHANGED <<replies, asked>>
    BY <1>6 DEF Skip
  <2>2. runs[n].judge \in Judges
    BY <1>1 DEF TypeOK, Entries
  <2>3. runs' = [runs EXCEPT ![n].status = "SKIPPED", ![n].judge = runs[n].judge]
    BY <1>1, <2>1 DEF TypeOK, Entries
  <2>4. /\ runs' \in [Numbers -> Entries]
        /\ \A m \in Numbers : m > used => runs'[m] = Empty
        /\ \A m \in Numbers : SameRecord(m)
    BY <1>1, <2>2, <2>3, JudgedRecord
  <2>5. TypeOK'
    BY <1>1, <1>2, <1>4, <2>1, <2>4 DEF TypeOK
  <2>6. KeptLog' /\ FilesFollowLog'
    BY <1>4, <2>4, SameKept, SameFiles, TypesOfTime
  <2> QED
    BY <1>4, <2>5, <2>6 DEF KeptEvents
<1> QED
  BY <1>5, <1>6

LEMMA StepClear ==
    ASSUME NEW n \in Present
    PROVE  IInv /\ Clear(n) => IInv'
<1> SUFFICES ASSUME IInv, Clear(n) PROVE IInv'
  OBVIOUS
<1> USE DEF IInv
<1>1. /\ runs[n].status # "VSTART"
      /\ runs' = [runs EXCEPT ![n] = Empty]
      /\ used' = UsedWithout(n) /\ stop' = StopWithout(n)
      /\ Forget({runs[n].user})
      /\ file' = IF UuidStore THEN file ELSE [file EXCEPT ![n] = 0]
      /\ UNCHANGED <<start, hash, replies, events, now, submits, asked, skipped>>
  BY DEF Clear
<1>2. ops' \in 0 .. MaxOps
  BY RunLogAssumption DEF Clear, ByJudge, TypeOK
<1>3. n \in Numbers /\ n <= used /\ used \in 0 .. MaxLog /\ MaxLog \in Nat
  BY NumbersOfRecords, RunLogAssumption DEF TypeOK
<1>4. runs'[n] = Empty /\ \A m \in Numbers : m # n => runs'[m] = runs[m]
  BY <1>1, <1>3 DEF TypeOK
<1>5. TypeOK'
  <2>1. Empty \in Entries
    BY RunLogAssumption DEF Empty, Entries, Statuses, Pseudo, Times, Judges
  <2>2. runs' \in [Numbers -> Entries]
    BY <1>1, <2>1 DEF TypeOK
  <2>3. used' \in 0 .. MaxLog /\ used' <= used
        /\ \A m \in Numbers : m > used' => m > used \/ m = n
    BY <1>1, <1>3 DEF UsedWithout, Numbers
  <2>4. \A m \in Numbers : m > used' => runs'[m] = Empty
    BY <1>4, <2>3 DEF TypeOK
  <2>5. stop' \in [Users -> Times]
    BY <1>1 DEF StopWithout, TypeOK, Times
  <2>6. file' \in [Numbers -> 0 .. MaxRuns]
    <3>1. 0 \in 0 .. MaxRuns
      BY RunLogAssumption
    <3> QED
      BY <1>1, <3>1 DEF TypeOK
  <2>7. list' \in [Users -> (SUBSET Numbers) \cup {None}]
    BY <1>1 DEF Forget, TypeOK
  <2> QED
    BY <1>1, <1>2, <2>2, <2>3, <2>4, <2>5, <2>6, <2>7 DEF TypeOK
<1>6. FilesFollowLog'
  <2> SUFFICES ASSUME ~UuidStore, NEW m \in Numbers, runs'[m].id # 0
               PROVE  file'[m] = runs'[m].id
    BY DEF FilesFollowLog, Submitted
  <2>1. m # n
    BY <1>4 DEF Empty
  <2>2. runs'[m] = runs[m] /\ file'[m] = file[m]
    BY <1>1, <1>4, <2>1 DEF TypeOK
  <2> QED
    BY <2>2 DEF FilesFollowLog, Submitted
<1>7. KeptLog'
  <2>1. Empty.status = "EMPTY" /\ Empty.id = 0 /\ "EMPTY" \in Pseudo
    BY DEF Empty, Pseudo
  <2>2. Present' = Present \ {n}
    BY <1>3, <1>4, <2>1 DEF Present
  <2>3. \A m \in Present' : runs'[m].time \in 1 .. now' /\ runs'[m].user \in Users
    BY <1>1, <1>4, <2>2 DEF KeptLog, Present
  <2>4. \A m \in Numbers : runs'[m].id # 0 <=> runs'[m].status \notin Pseudo
    BY <1>4, <2>1 DEF KeptLog
  <2>5. \A v \in Users : Own(v)' = Own(v) \ {n}
    BY <1>4, <2>2 DEF Own, Present
  <2>6. \A v \in Users : \A m \in Own(v)' : runs'[m] = runs[m]
    BY <1>4, <2>5 DEF Own, Present
  <2>7. \A v \in Users : start'[v] # 0 =>
           \E m \in Own(v)' : runs'[m].status = "VSTART" /\ runs'[m].time = start'[v]
    BY <1>1, <2>5, <2>6 DEF KeptLog
  <2>8. \A v \in Users : \A m \in Own(v)' :
           runs'[m].status = "VSTART" => runs'[m].time = start'[v]
    BY <1>1, <2>5, <2>6 DEF KeptLog
  <2> QED
    BY <2>3, <2>4, <2>7, <2>8 DEF KeptLog
<1>8. KeptEvents'
  BY <1>1 DEF KeptEvents
<1> QED
  BY <1>5, <1>6, <1>7, <1>8

LEMMA StepReadReply ==
    ASSUME NEW p \in replies
    PROVE  IInv /\ ReadReply(p) => IInv'
<1> SUFFICES ASSUME IInv, ReadReply(p) PROVE IInv'
  OBVIOUS
<1> USE DEF IInv
<1>1. /\ replies' = replies \ {p}
      /\ UNCHANGED <<used, start, stop, list, hash, file, events, now, submits,
                    asked, skipped, ops>>
  BY DEF ReadReply, table, counts
<1>2. /\ runs' \in [Numbers -> Entries]
      /\ \A m \in Numbers : m > used => runs'[m] = Empty
      /\ \A m \in Numbers : SameRecord(m)
  <2>1. CASE Awaited(p)
    <3>1. Target(p) \in Numbers
      BY <2>1, RunLogAssumption DEF Awaited, TypeOK, Numbers
    <3>2. runs[Target(p)].status \notin Pseudo
      BY <2>1 DEF Awaited, Pseudo
    <3>3. runs' = [runs EXCEPT ![Target(p)].status = "OK", ![Target(p)].judge = 0]
      BY <2>1 DEF ReadReply
    <3> QED
      BY <3>1, <3>2, <3>3, JudgedRecord DEF Judges
  <2>2. CASE ~Awaited(p)
    BY <2>2, SameRuns DEF ReadReply, TypeOK
  <2> QED
    BY <2>1, <2>2
<1>3. TypeOK'
  BY <1>1, <1>2 DEF TypeOK
<1>4. KeptLog' /\ FilesFollowLog'
  BY <1>1, <1>2, SameKept, SameFiles, TypesOfTime
<1>5. KeptEvents'
  BY <1>1 DEF KeptEvents
<1> QED
  BY <1>3, <1>4, <1>5

LEMMA StepTick == IInv /\ Tick => IInv'
<1> SUFFICES ASSUME IInv, Tick PROVE IInv'
  OBVIOUS
<1> USE DEF IInv
<1>1. /\ now' = Least({t \in Clock : t > now})
      /\ UNCHANGED <<runs, used, start, stop, list, hash, file, replies, events,
                    submits, asked, skipped, ops>>
  BY DEF Tick, log, table, counts
<1>2. now' \in Clock /\ now' > now
  <2>1. {t \in Clock : t > now} \subseteq Nat /\ {t \in Clock : t > now} # {}
    BY RunLogAssumption DEF Tick
  <2> QED
    BY <1>1, <2>1, LeastOf
<1>3. now \in Nat /\ now' \in Nat /\ now <= now'
  BY <1>2, RunLogAssumption DEF TypeOK
<1>4. TypeOK'
  BY <1>1, <1>2 DEF TypeOK
<1>5. KeptLog' /\ FilesFollowLog'
  BY <1>1, <1>3, SameRuns, SameKept, SameFiles
<1>6. KeptEvents'
  BY <1>1 DEF KeptEvents
<1> QED
  BY <1>4, <1>5, <1>6

LEMMA InvNext == IInv /\ [Next]_vars => IInv'
<1> SUFFICES ASSUME IInv, [Next]_vars PROVE IInv'
  OBVIOUS
<1>1. CASE Handle
  BY <1>1, StepHandleStop, StepHandleJudge DEF Handle
<1>2. CASE Request
  <2>1. ASSUME NEW u \in Users,
               \/ View(u) \/ VirtualStart(u) \/ ForceStart(u)
               \/ VirtualStop(u) \/ Submit(u) \/ SubmitFails(u)
        PROVE  IInv'
    BY <2>1, StepView, StepStarts, StepVirtualStop, StepSubmit, StepSubmitFails
  <2>2. ASSUME NEW n \in Submitted, Rejudge(n) \/ Skip(n) PROVE IInv'
    BY <2>2, StepJudge
  <2>3. ASSUME NEW n \in Present, Clear(n) PROVE IInv'
    BY <2>3, StepClear
  <2>4. ASSUME NEW p \in replies, ReadReply(p) PROVE IInv'
    BY <2>4, StepReadReply
  <2> QED
    BY <1>2, <2>1, <2>2, <2>3, <2>4 DEF Request
<1>3. CASE UNCHANGED vars
  BY <1>3 DEF vars, log, table, counts, IInv, TypeOK, FilesFollowLog, Submitted,
              KeptLog, KeptEvents, Own, Present
<1> QED
  BY <1>1, <1>2, <1>3, StepTick, StepRestart DEF Next

-----------------------------------------------------------------------------
(* Results                                                                 *)

LEMMA InvHolds == Spec => []IInv
<1> QED
  BY InvInit, InvNext, PTL DEF Spec

\* The state has its types: records, lists, archive, replies and events
\* (runs[], run_extras[], the user table and the event queue).
THEOREM RunLogTypes == Spec => []TypeOK
<1>1. IInv => TypeOK
  BY DEF IInv
<1> QED
  BY <1>1, InvHolds, PTL

\* However many records are put into the middle of the log, and whatever is
\* cleared, the source of each submit stays beside its record
\* (serve_move_files_to_insert_run).
THEOREM FilesAreFollowed == Spec => []FilesFollowLog
<1>1. IInv => FilesFollowLog
  BY DEF IInv
<1> QED
  BY <1>1, InvHolds, PTL

\* A stop that can be recorded: it is on time or nothing is under way.
LEMMA StopCanBeRecorded ==
    ASSUME IInv, NEW t \in Nat, t >= now \/ NoTransient
    PROVE  MayInsert(Position(t))
<1> USE DEF IInv
<1>1. CASE t >= now
  <2>1. \A n \in Present : ~(runs[n].time > t)
    BY <1>1, TypesOfTime DEF KeptLog
  <2>2. Position(t) = used + 1
    BY <2>1 DEF Position
  <2>3. used \in Nat
    BY RunLogAssumption DEF TypeOK
  <2> QED
    BY <2>2, <2>3 DEF MayInsert
<1>2. CASE NoTransient
  <2>1. Position(t) \in 1 .. used + 1 /\ used \in 0 .. MaxLog /\ MaxLog \in Nat
    BY PositionType, RunLogAssumption DEF TypeOK
  <2>2. Position(t) .. used \subseteq Numbers
    BY <2>1 DEF Numbers
  <2> QED
    BY <1>2, <2>2 DEF MayInsert, NoTransient
<1> QED
  BY <1>1, <1>2

\* Unloading keeps the stop events of all who have not stopped.
LEMMA RestartKeepsStops ==
    ASSUME IInv, Restart, NEW e \in events, e.type = "stop", e \notin events'
    PROVE  stop'[e.user] # 0
<1> USE DEF IInv
<1> DEFINE u == e.user
           S(s) == {n \in Own(u) : runs[n].status = s}
           of(s) == Greatest(S(s))
           time(n) == IF n = 0 THEN 0 ELSE runs[n].time
<1>1. u \in Users /\ start[u] # 0 /\ e.time = start[u] + Duration
      /\ e = [type |-> "stop", user |-> u, time |-> start[u] + Duration]
  BY DEF TypeOK, Events, KeptEvents
<1>2. ASSUME NEW s \in {"VSTART", "VSTOP"}
      PROVE  (of(s) # 0 <=> S(s) # {}) /\ (of(s) # 0 => of(s) \in S(s))
  <2>1. S(s) \subseteq 1 .. MaxLog /\ MaxLog \in Nat
    BY RunLogAssumption DEF Own, Present, Numbers
  <2> QED
    BY <2>1, GreatestType
<1>3. of("VSTART") # 0 /\ time(of("VSTART")) = start[u]
  <2>1. S("VSTART") # {}
    BY <1>1 DEF KeptLog
  <2>2. of("VSTART") # 0 /\ of("VSTART") \in S("VSTART")
    BY <1>2, <2>1
  <2> QED
    BY <1>1, <2>2 DEF KeptLog
<1>4. of("VSTOP") = 0 => e \in events'
  BY <1>1, <1>3 DEF Restart
<1>5. of("VSTOP") \in S("VSTOP") /\ of("VSTOP") # 0
  BY <1>2, <1>4
<1>6. runs[of("VSTOP")].time \in 1 .. now
  BY <1>5 DEF Own, KeptLog
<1>7. stop'[u] = runs[of("VSTOP")].time
  BY <1>1, <1>5 DEF Restart
<1> QED
  BY <1>6, <1>7

LEMMA StopLeavesWithTime ==
    ASSUME IInv, [Next]_vars, NEW e \in events, e.type = "stop", e \notin events'
    PROVE  stop'[e.user] # 0
<1> USE DEF IInv
<1>1. /\ e.user \in Users /\ start[e.user] # 0 /\ e.time \in Nat \ {0}
      /\ e.time = start[e.user] + Duration
  <2>1. e.user \in Users /\ start[e.user] # 0 /\ e.time = start[e.user] + Duration
    BY DEF TypeOK, Events, KeptEvents
  <2> QED
    BY <2>1, TypesOfTime
<1>2. CASE Restart
  BY <1>2, RestartKeepsStops
<1>3. ASSUME NEW f \in events, HandleStop(f) PROVE stop'[e.user] # 0
  <2>1. f = e
    BY <1>3 DEF HandleStop
  <2>2. CASE MayStop(e.user, e.time)
    BY <1>1, <1>3, <2>1, <2>2 DEF HandleStop, TypeOK
  <2>3. CASE ~MayStop(e.user, e.time)
    <3>1. e.time >= now \/ NoTransient
      BY <1>1, <1>3, <2>1, TypesOfTime DEF HandleStop, First, Due, Waits
    <3>2. MayInsert(Position(e.time))
      BY <1>1, <3>1, StopCanBeRecorded
    <3>3. stop[e.user] # 0
      BY <1>1, <2>3, <3>2, TypesOfTime DEF MayStop
    <3>4. stop' = stop
      BY <1>3, <2>1, <2>3 DEF HandleStop
    <3> QED
      BY <3>3, <3>4
  <2> QED
    BY <2>2, <2>3
<1>4. ASSUME NEW f \in events, HandleJudge(f) PROVE stop'[e.user] # 0
  <2>1. CASE ~ListIsOwn(f.user)
    BY <1>2, <1>4, <2>1 DEF HandleJudge
  <2>2. CASE ListIsOwn(f.user)
    BY <1>4, <2>2 DEF HandleJudge
  <2> QED
    BY <2>1, <2>2
<1>5. ASSUME NEW u \in Users, View(u) PROVE stop'[e.user] # 0
  BY <1>2, <1>5 DEF View
<1>6. ASSUME NEW u \in Users, VirtualStop(u) PROVE stop'[e.user] # 0
  <2>1. u = e.user
    BY <1>6 DEF VirtualStop
  <2> QED
    BY <1>6, <2>1, TypesOfTime DEF VirtualStop, TypeOK
<1>7. events' # events
  OBVIOUS
<1>8. CASE Handle
  BY <1>3, <1>4, <1>8 DEF Handle
<1>9. CASE Request
  <2>1. ASSUME NEW u \in Users, VirtualStart(u) \/ ForceStart(u)
        PROVE  FALSE
    BY <2>1 DEF VirtualStart, ForceStart
  <2> QED
    BY <1>5, <1>6, <1>7, <1>9, <2>1
       DEF Request, Submit, SubmitFails, Rejudge, Skip, Clear, ReadReply
<1> QED
  BY <1>2, <1>7, <1>8, <1>9 DEF Next, Tick, vars

\* An end of a participant's time leaves the queue only when the user table
\* has a stop: an event that is handled late waits until its record can be
\* put among the others (handle_virtual_stop_event, get_insert_run_id,
\* serve_collect_virtual_stop_events).
THEOREM StopsAreNotForgotten == Spec => StopsAreKept
<1>1. IInv /\ [Next]_vars =>
        [\A e \in events : e.type = "stop" /\ e \notin events'
            => stop'[e.user] # 0]_vars
  BY StopLeavesWithTime
<1> QED
  BY <1>1, InvHolds, PTL DEF Spec, StopsAreKept

-----------------------------------------------------------------------------
(* The user table follows the log.  TimesOfLog is not inductive: clearing  *)
(* a stop needs that it was the only one, and starting that nothing of an  *)
(* earlier time is left.                                                   *)

KeptStops ==
    \A u \in Users :
        /\ stop[u] # 0 => start[u] # 0
        /\ \A n \in Own(u) : runs[n].status = "VSTOP" => runs[n].time = stop[u]
        /\ \A m, n \in Own(u) :
              runs[m].status = "VSTOP" /\ runs[n].status = "VSTOP" => m = n
        /\ stop[u] # 0 =>
              \/ stop[u] = start[u] + Duration
              \/ \E n \in Own(u) : runs[n].status = "VSTOP"

TInv == IInv /\ KeptStops

\* Who has no time of his stop has no record of it.
LEMMA NoTimeNoStop ==
    ASSUME IInv, KeptStops, NEW u \in Users, stop[u] = 0
    PROVE  \A n \in Own(u) : runs[n].status # "VSTOP"
<1> SUFFICES ASSUME NEW n \in Own(u), runs[n].status = "VSTOP" PROVE FALSE
  OBVIOUS
<1>1. runs[n].time = 0
  BY DEF KeptStops
<1>2. runs[n].time \in 1 .. now
  BY DEF Own, IInv, KeptLog
<1> QED
  BY <1>1, <1>2

\* Stops of other users move, and each remains the only one.
LEMMA InsertStops ==
    ASSUME IInv, KeptStops, NEW s \in {"VSTART", "VSTOP"}, NEW u \in Users,
           NEW t \in 1 .. now, used < MaxLog, Insert(s, u, t),
           \/ /\ s = "VSTOP" /\ start' = start /\ start[u] # 0
              /\ stop[u] = 0 /\ stop' = [stop EXCEPT ![u] = t]
           \/ /\ s = "VSTART" /\ stop' = stop
              /\ start[u] = 0 /\ start' = [start EXCEPT ![u] = t]
    PROVE  KeptStops'
<1> USE DEF IInv
<1> DEFINE n == Position(t)
           e == [status |-> s, user |-> u, id |-> 0, time |-> t, judge |-> 0]
           old(m) == IF m < n THEN m ELSE m - 1
           Stops(v) == {m \in Own(v) : runs[m].status = "VSTOP"}
<1>0. t \in Nat /\ t # 0
  OBVIOUS
<1>a. /\ n \in Numbers /\ runs'[n] = e
      /\ \A m \in Numbers : m < n => runs'[m] = runs[m]
      /\ \A m \in Numbers : m > n => m - 1 \in Numbers /\ runs'[m] = runs[m - 1]
      /\ \A m \in Numbers : m >= n /\ m <= used =>
            m + 1 \in Numbers /\ runs'[m + 1] = runs[m]
  BY <1>0, InsertedRecords
<1>1. n \in Numbers /\ runs'[n] = e
  BY <1>a
<1>2. \A m \in Numbers : m < n => runs'[m] = runs[m]
  BY <1>a
<1>3. \A m \in Numbers : m > n => m - 1 \in Numbers /\ runs'[m] = runs[m - 1]
  BY <1>a
<1>4. \A m \in Numbers : m >= n /\ m <= used =>
         m + 1 \in Numbers /\ runs'[m + 1] = runs[m]
  BY <1>a
<1>5. /\ \A m \in Numbers : m # n => old(m) \in Numbers /\ runs'[m] = runs[old(m)]
      /\ \A k, m \in Numbers : k # n /\ m # n /\ old(k) = old(m) => k = m
  <2>1. n \in Nat /\ \A m \in Numbers : m \in Nat
    BY <1>1 DEF Numbers
  <2>2. \A m \in Numbers : m # n => old(m) \in Numbers /\ runs'[m] = runs[old(m)]
    BY <1>2, <1>3, <2>1
  <2>3. \A k, m \in Numbers : k # n /\ m # n /\ old(k) = old(m) => k = m
    BY <2>1
  <2> QED
    BY <2>2, <2>3
<1>6. \A m \in Present : \E k \in Numbers : runs'[k] = runs[m]
  <2> TAKE m \in Present
  <2>1. m \in Numbers /\ m <= used /\ (m < n \/ m >= n)
    BY <1>1, NumbersOfRecords DEF Numbers
  <2> QED
    BY <1>2, <1>4, <2>1
<1> HIDE DEF n, old
<1>7. \A v \in Users : /\ \A m \in Stops(v)' : m \in Numbers
                       /\ \A m \in Stops(v)' : m # n => old(m) \in Stops(v)
  BY <1>5 DEF Own, Present
<1>8. \A v \in Users : Stops(v) # {} => Stops(v)' # {}
  <2> SUFFICES ASSUME NEW v \in Users, NEW m \in Stops(v)
               PROVE  Stops(v)' # {}
    OBVIOUS
  <2>1. m \in Present /\ runs[m].status = "VSTOP" /\ runs[m].user = v
    BY DEF Own
  <2>2. PICK k \in Numbers : runs'[k] = runs[m]
    BY <1>6, <2>1
  <2>3. k \in Stops(v)'
    BY <2>1, <2>2 DEF Own, Present
  <2> QED
    BY <2>3
<1>9. CASE s = "VSTART"
  <2>1. stop' = stop /\ stop[u] = 0
    BY <1>9 DEF KeptStops
  <2>2. \A v \in Users : v # u => start'[v] = start[v]
    BY <1>9 DEF TypeOK
  <2>3. \A v \in Users : \A m \in Stops(v)' : m # n
    BY <1>1, <1>9
  <2>4. ASSUME NEW v \in Users
        PROVE  /\ stop'[v] # 0 => start'[v] # 0
               /\ \A m \in Stops(v)' : runs'[m].time = stop'[v]
               /\ \A k, m \in Stops(v)' : k = m
               /\ stop'[v] # 0 => \/ stop'[v] = start'[v] + Duration
                                 \/ Stops(v)' # {}
    <3>1. stop'[v] # 0 => v # u /\ start'[v] = start[v]
      BY <2>1, <2>2
    <3>2. \A m \in Stops(v)' : runs'[m].time = stop'[v]
      BY <1>5, <1>7, <2>1, <2>3 DEF KeptStops
    <3>3. \A k, m \in Stops(v)' : k = m
      BY <1>5, <1>7, <2>3 DEF KeptStops
    <3>4. stop'[v] # 0 => start[v] # 0
      BY <2>1 DEF KeptStops
    <3>5. stop'[v] # 0 => stop[v] = start[v] + Duration \/ Stops(v) # {}
      BY <2>1 DEF KeptStops
    <3> QED
      BY <1>8, <2>1, <3>1, <3>2, <3>3, <3>4, <3>5
  <2> QED
    BY <2>4 DEF KeptStops
<1>10. CASE s = "VSTOP"
  <2>1. /\ start' = start /\ start[u] # 0 /\ stop[u] = 0
        /\ stop' = [stop EXCEPT ![u] = t]
    BY <1>10
  <2>2. Stops(u) = {}
    BY <2>1, NoTimeNoStop
  <2>3. \A v \in Users : v # u => stop'[v] = stop[v]
    BY <2>1 DEF TypeOK
  <2>4. stop'[u] = t
    BY <2>1 DEF TypeOK
  <2>5. \A v \in Users : v # u => n \notin Stops(v)'
    BY <1>1 DEF Own
  <2>6. n \in Stops(u)' /\ \A m \in Stops(u)' : m = n
    <3>1. n \in Stops(u)'
      BY <1>1, <1>10 DEF Own, Present
    <3> QED
      BY <1>7, <2>2, <3>1
  <2>7. ASSUME NEW v \in Users
        PROVE  /\ stop'[v] # 0 => start'[v] # 0
               /\ \A m \in Stops(v)' : runs'[m].time = stop'[v]
               /\ \A k, m \in Stops(v)' : k = m
               /\ stop'[v] # 0 => \/ stop'[v] = start'[v] + Duration
                                 \/ Stops(v)' # {}
    <3>1. CASE v = u
      BY <1>1, <2>1, <2>4, <2>6, <3>1
    <3>2. CASE v # u
      <4>1. \A m \in Stops(v)' : runs'[m].time = stop'[v]
        BY <1>5, <1>7, <2>3, <2>5, <3>2 DEF KeptStops
      <4>2. \A k, m \in Stops(v)' : k = m
        BY <1>5, <1>7, <2>5, <3>2 DEF KeptStops
      <4>3. stop'[v] # 0 => start[v] # 0
        BY <2>3, <3>2 DEF KeptStops
      <4>4. stop'[v] # 0 => stop[v] = start[v] + Duration \/ Stops(v) # {}
        BY <2>3, <3>2 DEF KeptStops
      <4> QED
        BY <1>8, <2>1, <2>3, <3>2, <4>1, <4>2, <4>3, <4>4
    <3> QED
      BY <3>1, <3>2
  <2> QED
    BY <2>7 DEF KeptStops
<1> QED
  BY <1>9, <1>10

\* What judging and its replies leave of the records
LEMMA JudgeRecords ==
    ASSUME IInv, NEW n \in Submitted, Rejudge(n) \/ Skip(n)
    PROVE  \A m \in Numbers : SameRecord(m)
<1> USE DEF IInv
<1>1. n \in Numbers /\ runs[n].status \notin Pseudo
  BY DEF Submitted, KeptLog
<1>2. asked + 1 \in Judges /\ runs[n].judge \in Judges
  BY <1>1 DEF TypeOK, Judges, Entries
<1>3. Skip(n) => runs' = [runs EXCEPT ![n].status = "SKIPPED", ![n].judge = runs[n].judge]
  BY <1>1 DEF Skip, TypeOK, Entries
<1> QED
  BY <1>1, <1>2, <1>3, JudgedRecord DEF Rejudge

LEMMA ReplyRecords ==
    ASSUME IInv, NEW p \in replies, ReadReply(p)
    PROVE  \A m \in Numbers : SameRecord(m)
<1> USE DEF IInv
<1>1. CASE Awaited(p)
  <2>1. Target(p) \in Numbers /\ runs[Target(p)].status \notin Pseudo
    BY <1>1, RunLogAssumption DEF Awaited, Pseudo, TypeOK, Numbers
  <2>2. runs' = [runs EXCEPT ![Target(p)].status = "OK", ![Target(p)].judge = 0]
    BY <1>1 DEF ReadReply
  <2> QED
    BY <2>1, <2>2, JudgedRecord DEF Judges
<1>2. CASE ~Awaited(p)
  BY <1>2, SameRuns DEF ReadReply
<1> QED
  BY <1>1, <1>2

LEMMA HandleJudgeRecords ==
    ASSUME IInv, NEW e \in events, HandleJudge(e), ListIsOwn(e.user)
    PROVE  \A m \in Numbers : SameRecord(m)
<1> USE DEF IInv
<1> DEFINE vs == Greatest(InList(e.user, "VSTART"))
<1>1. e.user \in Users
  BY DEF TypeOK, Events
<1>2. IF HasTime(e.user) /\ runs[vs].judge = 0
      THEN JudgeUser(e.user, vs) ELSE runs' = runs
  BY DEF HandleJudge
<1>3. HasTime(e.user) => vs \in Present
  BY <1>1, StartOfTime
<1> QED
  BY <1>1, <1>2, <1>3, JudgeUserTypes, SameRuns

LEMMA SameStops ==
    ASSUME KeptStops, start' = start, stop' = stop,
           \A m \in Numbers : SameRecord(m)
    PROVE  KeptStops'
<1>1. \A m \in Numbers : /\ runs'[m].status = "EMPTY" <=> runs[m].status = "EMPTY"
                         /\ runs'[m].status = "VSTOP" <=> runs[m].status = "VSTOP"
                         /\ runs'[m].time = runs[m].time /\ runs'[m].user = runs[m].user
  BY DEF SameRecord, Pseudo
<1>2. \A u \in Users : Own(u)' = Own(u) /\ Own(u) \subseteq Numbers
  BY <1>1 DEF Own, Present
<1> QED
  BY <1>1, <1>2 DEF KeptStops

\* Loading finds the times of the log.
LEMMA RestartTimes ==
    ASSUME IInv, Restart
    PROVE  start' = start /\ runs' = runs
<1> USE DEF IInv
<1> DEFINE S(u) == {n \in Own(u) : runs[n].status = "VSTART"}
           time(n) == IF n = 0 THEN 0 ELSE runs[n].time
<1>1. start' = [u \in Users |-> time(Greatest(S(u)))] /\ runs' = runs
  BY DEF Restart, log
<1>2. ASSUME NEW u \in Users
      PROVE  time(Greatest(S(u))) = start[u]
  <2>1. S(u) \subseteq 1 .. MaxLog /\ MaxLog \in Nat
    BY RunLogAssumption DEF Own, Present, Numbers
  <2>2. /\ Greatest(S(u)) # 0 <=> S(u) # {}
        /\ Greatest(S(u)) # 0 => Greatest(S(u)) \in S(u)
    BY <2>1, GreatestType
  <2>3. CASE S(u) = {}
    <3>1. start[u] = 0
      BY <2>3 DEF KeptLog
    <3> QED
      BY <2>2, <2>3, <3>1
  <2>4. CASE S(u) # {}
    BY <2>2, <2>4 DEF KeptLog
  <2> QED
    BY <2>3, <2>4
<1> QED
  BY <1>1, <1>2 DEF TypeOK

LEMMA StopsRestart ==
    ASSUME IInv, KeptStops, Restart
    PROVE  KeptStops'
<1> USE DEF IInv
<1> DEFINE S(u) == {n \in Own(u) : runs[n].status = "VSTOP"}
           of(u) == Greatest(S(u))
           time(n) == IF n = 0 THEN 0 ELSE runs[n].time
<1>1. ASSUME NEW u \in Users
      PROVE  (of(u) # 0 <=> S(u) # {}) /\ (of(u) # 0 => of(u) \in S(u))
  <2>1. S(u) \subseteq 1 .. MaxLog /\ MaxLog \in Nat
    BY RunLogAssumption DEF Own, Present, Numbers
  <2> QED
    BY <2>1, GreatestType
<1>2. /\ stop' = [u \in Users |-> time(of(u))]
      /\ runs' = runs
  BY DEF Restart, log
<1>3. \A u \in Users : Own(u)' = Own(u)
  BY <1>2 DEF Own, Present
<1> HIDE DEF of
<1>4. start' = start
  BY RestartTimes
<1>5. ASSUME NEW u \in Users, S(u) # {}
      PROVE  stop'[u] = stop[u]
  <2>1. of(u) # 0 /\ of(u) \in S(u)
    BY <1>1, <1>5
  <2>2. runs[of(u)].time = stop[u]
    BY <2>1 DEF KeptStops
  <2> QED
    BY <1>2, <2>1, <2>2
<1>6. \A u \in Users : S(u) = {} => stop'[u] = 0
  BY <1>1, <1>2
<1>7. ASSUME NEW u \in Users
      PROVE  /\ stop'[u] # 0 => start'[u] # 0
             /\ \A n \in Own(u) : runs[n].status = "VSTOP" => runs[n].time = stop'[u]
             /\ \A m, n \in Own(u) :
                   runs[m].status = "VSTOP" /\ runs[n].status = "VSTOP" => m = n
             /\ stop'[u] # 0 => \E n \in Own(u) : runs[n].status = "VSTOP"
  <2>1. stop'[u] # 0 => S(u) # {} /\ stop[u] # 0
    BY <1>5, <1>6
  <2>2. stop[u] # 0 => start'[u] # 0
    BY <1>4 DEF KeptStops
  <2>3. \A n \in Own(u) : runs[n].status = "VSTOP" => runs[n].time = stop'[u]
    BY <1>5 DEF KeptStops
  <2> QED
    BY <2>1, <2>2, <2>3 DEF KeptStops
<1> QED
  BY <1>2, <1>3, <1>7 DEF KeptStops

LEMMA StopsHandle ==
    ASSUME IInv, KeptStops, Handle
    PROVE  KeptStops'
<1> USE DEF IInv
<1>1. PICK e \in events : HandleStop(e) \/ HandleJudge(e)
  BY DEF Handle
<1>2. e.user \in Users
  BY DEF TypeOK, Events
<1>3. CASE HandleStop(e)
  <2>1. /\ e.type = "stop" /\ e.time <= now /\ start' = start
        /\ start[e.user] # 0 /\ e.time = start[e.user] + Duration
    BY <1>3 DEF HandleStop, First, Due, KeptEvents
  <2>2. e.time \in 1 .. now
    BY <1>2, <2>1, TypesOfTime
  <2>3. CASE MayStop(e.user, e.time)
    <3>1. /\ used < MaxLog /\ Insert("VSTOP", e.user, e.time)
          /\ stop[e.user] = 0 /\ stop' = [stop EXCEPT ![e.user] = e.time]
      BY <1>3, <2>3 DEF HandleStop, MayStop
    <3> QED
      BY <1>2, <2>1, <2>2, <3>1, InsertStops
  <2>4. CASE ~MayStop(e.user, e.time)
    BY <1>3, <2>1, <2>4, SameRuns, SameStops DEF HandleStop, log
  <2> QED
    BY <2>3, <2>4
<1>4. CASE HandleJudge(e)
  <2>1. CASE ~ListIsOwn(e.user)
    BY <1>4, <2>1, StopsRestart DEF HandleJudge
  <2>2. CASE ListIsOwn(e.user)
    BY <1>4, <2>2, HandleJudgeRecords, SameStops DEF HandleJudge, table
  <2> QED
    BY <2>1, <2>2
<1> QED
  BY <1>1, <1>3, <1>4

\* A page may see the end of a participant's time first.
LEMMA StopsView ==
    ASSUME IInv, KeptStops, NEW u \in Users, View(u)
    PROVE  KeptStops'
<1> USE DEF IInv
<1>1. CASE ~ListIsOwn(u)
  BY <1>1, StopsRestart DEF View
<1>2. CASE ListIsOwn(u)
  <2>1. stop' = [stop EXCEPT ![u] = CurrentStop(u)] /\ start' = start /\ runs' = runs
    BY <1>2 DEF View, log
  <2>2. \A v \in Users : Own(v)' = Own(v)
    BY <2>1 DEF Own, Present
  <2>3. CASE CurrentStop(u) = stop[u]
    <3>1. stop' = stop
      BY <2>1, <2>3 DEF TypeOK
    <3> QED
      BY <2>1, <3>1, SameRuns, SameStops
  <2>4. CASE CurrentStop(u) # stop[u]
    <3>1. start[u] # 0 /\ stop[u] = 0 /\ CurrentStop(u) = start[u] + Duration
      BY <2>4 DEF CurrentStop
    <3>2. \A n \in Own(u) : runs[n].status # "VSTOP"
      BY <3>1, NoTimeNoStop
    <3>3. /\ stop'[u] = start[u] + Duration
          /\ \A v \in Users : v # u => stop'[v] = stop[v]
      BY <2>1, <3>1 DEF TypeOK
    <3> QED
      BY <2>1, <2>2, <3>1, <3>2, <3>3 DEF KeptStops
  <2> QED
    BY <2>3, <2>4
<1> QED
  BY <1>1, <1>2

LEMMA StopsSubmit ==
    ASSUME IInv, KeptStops, NEW u \in Users, Submit(u)
    PROVE  KeptStops'
<1> USE DEF IInv
<1> DEFINE n == used + 1
<1>1. used < MaxLog /\ used \in Nat /\ MaxLog \in Nat
  BY RoomForOne, RunLogAssumption DEF Submit, TypeOK
<1>2. n \in Numbers /\ n \notin Present
  BY <1>1 DEF Numbers, Present, TypeOK, Empty
<1>3. /\ start' = start /\ stop' = stop
      /\ runs'[n].status = "RUNNING"
      /\ \A m \in Numbers : m # n => runs'[m] = runs[m]
  BY <1>2 DEF Submit, table, TypeOK
<1> HIDE DEF n
<1>4. Present' = Present \cup {n}
  BY <1>2, <1>3 DEF Present
<1>5. \A v \in Users : Own(v) \subseteq Own(v)' /\ Own(v)' \subseteq Own(v) \cup {n}
  BY <1>2, <1>3, <1>4 DEF Own, Present
<1>6. \A v \in Users : \A m \in Own(v) : runs'[m] = runs[m]
  BY <1>2, <1>3 DEF Own, Present
<1> QED
  BY <1>3, <1>5, <1>6 DEF KeptStops

LEMMA StopsClear ==
    ASSUME IInv, KeptStops, NEW n \in Present, Clear(n)
    PROVE  KeptStops'
<1> USE DEF IInv
<1>0. PICK u \in Users : u = runs[n].user
  BY DEF KeptLog
<1>1. n \in Numbers /\ n \in Own(u)
  BY <1>0 DEF Present, Own
<1>2. /\ start' = start /\ runs'[n] = Empty
      /\ \A m \in Numbers : m # n => runs'[m] = runs[m]
  BY <1>1 DEF Clear, TypeOK
<1>3. Present' = Present \ {n}
  BY <1>1, <1>2 DEF Present, Empty
<1>4. \A v \in Users : /\ Own(v)' = Own(v) \ {n}
                       /\ \A m \in Own(v)' : runs'[m] = runs[m]
  BY <1>2, <1>3 DEF Own, Present
<1>5. CASE runs[n].status = "VSTOP"
  <2>1. stop' = [stop EXCEPT ![u] = 0]
    BY <1>0, <1>5 DEF Clear, StopWithout
  <2>2. \A m \in Own(u)' : runs'[m].status # "VSTOP"
    BY <1>1, <1>4, <1>5 DEF KeptStops
  <2>3. \A v \in Users : v # u => stop'[v] = stop[v] /\ Own(v)' = Own(v)
    BY <1>1, <1>4, <2>1 DEF TypeOK, Own
  <2>4. stop'[u] = 0
    BY <1>1, <2>1 DEF TypeOK
  <2> QED
    BY <1>2, <1>4, <2>2, <2>3, <2>4 DEF KeptStops
<1>6. CASE runs[n].status # "VSTOP"
  <2>1. stop' = stop
    BY <1>6 DEF Clear, StopWithout
  <2> QED
    BY <1>2, <1>4, <1>6, <2>1 DEF KeptStops
<1> QED
  BY <1>5, <1>6

LEMMA TInvNext == TInv /\ [Next]_vars => TInv'
<1> SUFFICES ASSUME IInv, KeptStops, [Next]_vars PROVE KeptStops'
  BY InvNext DEF TInv
<1> USE DEF IInv
<1>1. ASSUME NEW u \in Users, Begin(u) PROVE KeptStops'
  <2>1. used < MaxLog /\ now \in 1 .. now
    BY <1>1, RoomForOne, TypesOfTime DEF Begin
  <2> QED
    BY <1>1, <2>1, InsertStops DEF Begin
<1>2. ASSUME NEW u \in Users, VirtualStop(u) PROVE KeptStops'
  <2>1. start[u] # 0 /\ CurrentStop(u) = 0
    BY <1>2 DEF VirtualStop
  <2>2. stop[u] = 0
    BY <2>1, TypesOfTime DEF CurrentStop
  <2>3. now \in 1 .. now
    BY TypesOfTime
  <2> QED
    BY <1>2, <2>1, <2>2, <2>3, InsertStops DEF VirtualStop
<1>3. ASSUME NEW u \in Users, SubmitFails(u) PROVE KeptStops'
  BY <1>3, SameRuns, SameStops DEF SubmitFails, log, table
<1>4. ASSUME NEW n \in Submitted, Rejudge(n) \/ Skip(n) PROVE KeptStops'
  BY <1>4, JudgeRecords, SameStops DEF Rejudge, Skip, table
<1>5. ASSUME NEW p \in replies, ReadReply(p) PROVE KeptStops'
  BY <1>5, ReplyRecords, SameStops DEF ReadReply, table
<1>6. CASE Request
  <2>1. ASSUME NEW u \in Users,
               \/ View(u) \/ VirtualStart(u) \/ ForceStart(u)
               \/ VirtualStop(u) \/ Submit(u) \/ SubmitFails(u)
        PROVE  KeptStops'
    BY <1>1, <1>2, <1>3, <2>1, StopsView, StopsSubmit DEF VirtualStart, ForceStart
  <2> QED
    BY <1>4, <1>5, <1>6, <2>1, StopsClear DEF Request
<1>7. CASE Tick \/ UNCHANGED vars
  BY <1>7, SameRuns, SameStops DEF Tick, vars, log, table
<1> QED
  BY <1>6, <1>7, StopsHandle, StopsRestart DEF Next

\* The times kept for each user are those of his records, after any stops
\* that were handled late, were seen by a page first or were cleared
\* (run_virtual_stop, run_get_virtual_stop_time, run_clear_entry).
THEOREM TimesAreOfLog == Spec => []TimesOfLog
<1>1. Init => TInv
  <2>1. Init => KeptStops
    BY DEF Init, KeptStops, Own, Present, Empty
  <2> QED
    BY <2>1, InvInit DEF TInv
<1>2. TInv => TimesOfLog
  <2> SUFFICES ASSUME TInv, NEW u \in Users
               PROVE  /\ start[u] # 0 <=> \E n \in Own(u) :
                            runs[n].status = "VSTART" /\ runs[n].time = start[u]
                      /\ \A n \in Own(u) :
                            runs[n].status = "VSTOP" => runs[n].time = stop[u]
                      /\ stop[u] # 0 =>
                            \/ stop[u] = start[u] + Duration
                            \/ \E n \in Own(u) : runs[n].status = "VSTOP"
    BY DEF TimesOfLog
  <2>1. \A n \in Own(u) : runs[n].time \in 1 .. now
    BY DEF Own, TInv, IInv, KeptLog
  <2>2. start[u] # 0 <=> \E n \in Own(u) :
           runs[n].status = "VSTART" /\ runs[n].time = start[u]
    BY <2>1 DEF TInv, IInv, KeptLog
  <2> QED
    BY <2>2 DEF TInv, KeptStops
<1> QED
  BY <1>1, <1>2, TInvNext, PTL DEF Spec

-----------------------------------------------------------------------------
(* The order of the log.  That nothing is to be repaired needs the times   *)
(* of all records in order, whoever made them: a late stop finds its place *)
(* by time, and its place must be after the participant's submits.         *)

KeptOrder ==
    /\ \A m, n \in Present : m < n => runs[m].time <= runs[n].time
    /\ \A u \in Users : \A n \in Own(u) :
          /\ start[u] # 0 /\ runs[n].time <= start[u] + Duration
          /\ runs[n].status = "VSTART" => \A m \in Own(u) : m >= n
          /\ runs[n].status = "VSTOP" => \A m \in Own(u) : m <= n

OInv == TInv /\ KeptOrder

\* get_insert_run_id divides the log by time.
LEMMA PositionSplits ==
    ASSUME IInv, KeptOrder, NEW t \in Nat, NEW m \in Present
    PROVE  m < Position(t) <=> runs[m].time <= t
<1> USE DEF IInv
<1> DEFINE later == {n \in Present : runs[n].time > t}
<1>1. /\ used \in Nat /\ now \in Nat /\ m \in Nat /\ m <= used
      /\ \A n \in Present : n \in Nat /\ runs[n].time \in Nat
  <2>1. used \in Nat /\ now \in Nat
    BY RunLogAssumption, TypesOfTime DEF TypeOK
  <2>2. \A n \in Present : n \in Nat /\ n <= used
    BY NumbersOfRecords DEF Numbers
  <2>3. \A n \in Present : runs[n].time \in Nat
    BY <2>1 DEF KeptLog
  <2> QED
    BY <2>1, <2>2, <2>3
<1>2. CASE later = {}
  <2>1. Position(t) = used + 1 /\ ~(runs[m].time > t)
    BY <1>2 DEF Position
  <2> QED
    BY <1>1, <2>1
<1>3. CASE later # {}
  <2>1. later \subseteq Nat
    BY <1>1
  <2>2. PICK p \in later : p = Position(t) /\ \A n \in later : p <= n
    BY <1>3, <2>1, LeastOf DEF Position
  <2>3. /\ p \in Present /\ p \in Nat /\ m \in Nat
        /\ runs[p].time \in Nat /\ runs[m].time \in Nat /\ runs[p].time > t
    BY <1>1
  <2>4. runs[m].time > t => p <= m
    BY <2>2
  <2>5. p < m => runs[p].time <= runs[m].time
    BY <2>3 DEF KeptOrder
  <2>6. m < p <=> runs[m].time <= t
    <3> HIDE DEF later
    <3>1. CASE p = m
      BY <2>3, <3>1
    <3>2. CASE p # m
      BY <2>3, <2>4, <2>5, <3>2
    <3> QED
      BY <3>1, <3>2
  <2> QED
    BY <2>2, <2>6
<1> QED
  BY <1>2, <1>3

LEMMA InsertOrder ==
    ASSUME TInv, KeptOrder, NEW s \in {"VSTART", "VSTOP"}, NEW u \in Users,
           NEW t \in 1 .. now, used < MaxLog, Insert(s, u, t),
           \/ /\ s = "VSTOP" /\ start' = start /\ start[u] # 0
              /\ stop[u] = 0 /\ t <= start[u] + Duration
              /\ \A m \in Own(u) : runs[m].time <= t
           \/ s = "VSTART" /\ start[u] = 0 /\ start' = [start EXCEPT ![u] = t]
    PROVE  KeptOrder'
<1> USE DEF TInv, IInv
<1> DEFINE n == Position(t)
           e == [status |-> s, user |-> u, id |-> 0, time |-> t, judge |-> 0]
           old(m) == IF m < n THEN m ELSE m - 1
<1>0. t \in Nat /\ t # 0
  OBVIOUS
<1>a. /\ n \in Numbers /\ runs'[n] = e
      /\ \A m \in Numbers : m < n => runs'[m] = runs[m]
      /\ \A m \in Numbers : m > n => m - 1 \in Numbers /\ runs'[m] = runs[m - 1]
      /\ \A m \in Numbers : m >= n /\ m <= used =>
            m + 1 \in Numbers /\ runs'[m + 1] = runs[m]
  BY <1>0, InsertedRecords
<1>1. n \in Numbers /\ runs'[n] = e
  BY <1>a
<1>2. \A m \in Numbers : m < n => runs'[m] = runs[m]
  BY <1>a
<1>3. \A m \in Numbers : m > n => m - 1 \in Numbers /\ runs'[m] = runs[m - 1]
  BY <1>a
<1>4. n \in Nat /\ \A m \in Numbers : m \in Nat
  BY <1>1 DEF Numbers
<1>5. \A m \in Numbers : m # n => old(m) \in Numbers /\ runs'[m] = runs[old(m)]
  BY <1>2, <1>3, <1>4
<1>6. \A k, m \in Numbers : k # n /\ m # n =>
         /\ k < m => old(k) < old(m)
         /\ k < n <=> old(k) < n
  BY <1>4
<1>7. \A m \in Present : m < n <=> runs[m].time <= t
  BY <1>0, PositionSplits
<1> HIDE DEF n, old
<1>8. /\ Present' \subseteq Numbers
      /\ \A m \in Present' : m # n => old(m) \in Present
      /\ \A v \in Users : \A m \in Own(v)' : m # n => old(m) \in Own(v)
  BY <1>5 DEF Present, Own
<1>9. \A v \in Users : Own(v) \subseteq Present /\ Own(v)' \subseteq Present'
  BY DEF Own
<1>10. \A v \in Users : n \in Own(v)' => v = u
  BY <1>1 DEF Own
<1>11. s = "VSTART" => Own(u) = {}
  BY DEF KeptOrder
<1>12. s = "VSTOP" => \A m \in Own(u) : runs[m].status # "VSTOP" /\ m < n
  BY <1>7, <1>9, NoTimeNoStop
<1>13. \A m \in Present : runs[m].time \in Nat
  BY TypesOfTime DEF KeptLog
<1>14. ASSUME NEW a \in Present', NEW b \in Present', a < b
       PROVE  runs'[a].time <= runs'[b].time
  <2>1. CASE a # n /\ b # n
    BY <1>5, <1>6, <1>8, <1>14, <2>1 DEF KeptOrder
  <2>2. CASE a = n
    <3>1. b # n /\ ~(b < n)
      BY <1>4, <1>8, <1>14, <2>2
    <3>2. old(b) \in Present /\ ~(old(b) < n) /\ runs'[b] = runs[old(b)]
      BY <1>5, <1>6, <1>8, <3>1
    <3>3. ~(runs[old(b)].time <= t)
      BY <1>7, <3>2
    <3> QED
      BY <1>0, <1>1, <1>13, <2>2, <3>2, <3>3
  <2>3. CASE b = n
    <3>1. a # n /\ a < n
      BY <1>4, <1>8, <1>14, <2>3
    <3>2. old(a) \in Present /\ old(a) < n /\ runs'[a] = runs[old(a)]
      BY <1>5, <1>6, <1>8, <3>1
    <3> QED
      BY <1>1, <1>7, <2>3, <3>2
  <2> QED
    BY <2>1, <2>2, <2>3
<1>15. ASSUME NEW v \in Users, NEW m \in Own(v)'
       PROVE  start'[v] # 0 /\ runs'[m].time <= start'[v] + Duration
  <2>1. CASE m = n
    <3>1. v = u /\ runs'[m].time = t
      BY <1>1, <1>10, <1>15, <2>1
    <3>2. CASE s = "VSTOP"
      BY <3>1, <3>2
    <3>3. CASE s = "VSTART"
      <4>1. start'[v] = t
        BY <3>1, <3>3 DEF TypeOK
      <4> QED
        BY <1>0, <3>1, <4>1, TypesOfTime
    <3> QED
      BY <3>2, <3>3
  <2>2. CASE m # n
    <3>1. old(m) \in Own(v) /\ runs'[m] = runs[old(m)]
      BY <1>5, <1>8, <1>9, <2>2
    <3>2. start'[v] = start[v]
      BY <1>11, <3>1 DEF TypeOK
    <3> QED
      BY <3>1, <3>2 DEF KeptOrder
  <2> QED
    BY <2>1, <2>2
<1>16. ASSUME NEW v \in Users, NEW m \in Own(v)', NEW k \in Own(v)'
       PROVE  /\ runs'[m].status = "VSTART" => k >= m
              /\ runs'[m].status = "VSTOP" => k <= m
  <2>0. m \in Numbers /\ k \in Numbers /\ m \in Nat /\ k \in Nat
    BY <1>4, <1>8, <1>9
  <2>1. CASE m # n /\ k # n
    <3>1. /\ old(m) \in Own(v) /\ runs'[m] = runs[old(m)] /\ old(m) \in Nat
          /\ old(k) \in Own(v) /\ runs'[k] = runs[old(k)] /\ old(k) \in Nat
      BY <1>4, <1>5, <1>8, <2>0, <2>1
    <3>2. CASE runs'[m].status = "VSTART"
      <4>1. old(k) >= old(m)
        BY <3>1, <3>2 DEF KeptOrder
      <4>2. ~(k < m)
        BY <1>6, <2>0, <2>1, <3>1, <4>1
      <4> QED
        BY <2>0, <3>2, <4>2
    <3>3. CASE runs'[m].status = "VSTOP"
      <4>1. old(k) <= old(m)
        BY <3>1, <3>3 DEF KeptOrder
      <4>2. ~(m < k)
        BY <1>6, <2>0, <2>1, <3>1, <4>1
      <4> QED
        BY <2>0, <3>3, <4>2
    <3> QED
      BY <3>2, <3>3
  <2>2. CASE m = n /\ k = n
    BY <2>0, <2>2
  <2>3. CASE m = n /\ k # n
    <3>1. v = u /\ old(k) \in Own(u) /\ s = "VSTOP"
      BY <1>8, <1>10, <1>11, <2>3
    <3>2. k < n
      BY <1>6, <1>12, <2>0, <2>3, <3>1
    <3> QED
      BY <1>1, <1>4, <2>0, <2>3, <3>1, <3>2
  <2>4. CASE m # n /\ k = n
    <3>1. v = u /\ old(m) \in Own(u) /\ s = "VSTOP" /\ runs'[m] = runs[old(m)]
      BY <1>5, <1>8, <1>10, <1>11, <2>0, <2>4
    <3>2. m < n /\ runs'[m].status # "VSTOP"
      BY <1>6, <1>12, <2>0, <2>4, <3>1
    <3> QED
      BY <1>4, <2>0, <2>4, <3>2
  <2> QED
    BY <2>1, <2>2, <2>3, <2>4
<1> QED
  BY <1>14, <1>15, <1>16 DEF KeptOrder

LEMMA SameOrder ==
    ASSUME KeptOrder, start' = start, \A m \in Numbers : SameRecord(m)
    PROVE  KeptOrder'
<1>1. \A m \in Numbers :
         /\ runs'[m].status = "EMPTY" <=> runs[m].status = "EMPTY"
         /\ runs'[m].status = "VSTART" <=> runs[m].status = "VSTART"
         /\ runs'[m].status = "VSTOP" <=> runs[m].status = "VSTOP"
         /\ runs'[m].time = runs[m].time /\ runs'[m].user = runs[m].user
  BY DEF SameRecord, Pseudo
<1>2. /\ Present' = Present /\ Present \subseteq Numbers
      /\ \A u \in Users : Own(u)' = Own(u) /\ Own(u) \subseteq Numbers
  BY <1>1 DEF Own, Present
<1> QED
  BY <1>1, <1>2 DEF KeptOrder

LEMMA OrderHandle ==
    ASSUME TInv, KeptOrder, Handle
    PROVE  KeptOrder'
<1> USE DEF TInv, IInv
<1>1. PICK e \in events : HandleStop(e) \/ HandleJudge(e)
  BY DEF Handle
<1>2. e.user \in Users
  BY DEF TypeOK, Events
<1>3. CASE HandleStop(e)
  <2>1. /\ e.type = "stop" /\ e.time <= now /\ start' = start
        /\ start[e.user] # 0 /\ e.time = start[e.user] + Duration
    BY <1>3 DEF HandleStop, First, Due, KeptEvents
  <2>2. e.time \in 1 .. now
    BY <1>2, <2>1, TypesOfTime
  <2>3. CASE MayStop(e.user, e.time)
    <3>1. /\ used < MaxLog /\ Insert("VSTOP", e.user, e.time)
          /\ stop[e.user] = 0 /\ e.time <= start[e.user] + Duration
      BY <1>3, <2>3 DEF HandleStop, MayStop
    <3>2. \A m \in Own(e.user) : runs[m].time <= e.time
      BY <1>2, <2>1 DEF KeptOrder
    <3> QED
      BY <1>2, <2>1, <2>2, <3>1, <3>2, InsertOrder
  <2>4. CASE ~MayStop(e.user, e.time)
    BY <1>3, <2>1, <2>4, SameRuns, SameOrder DEF HandleStop, log
  <2> QED
    BY <2>3, <2>4
<1>4. CASE HandleJudge(e)
  <2>1. CASE ~ListIsOwn(e.user)
    BY <1>4, <2>1, RestartTimes, SameRuns, SameOrder DEF HandleJudge
  <2>2. CASE ListIsOwn(e.user)
    BY <1>4, <2>2, HandleJudgeRecords, SameOrder DEF HandleJudge, table
  <2> QED
    BY <2>1, <2>2
<1> QED
  BY <1>1, <1>3, <1>4

\* A submit is the last record, in the participant's time, before any stop.
LEMMA OrderSubmit ==
    ASSUME TInv, KeptOrder, NEW u \in Users, Submit(u)
    PROVE  KeptOrder'
<1> USE DEF TInv, IInv
<1> DEFINE n == used + 1
<1>1. used < MaxLog /\ used \in Nat /\ MaxLog \in Nat
  BY RoomForOne, RunLogAssumption DEF Submit, TypeOK
<1>2. n \in Numbers /\ n \notin Present /\ \A m \in Present : m \in Nat /\ m < n
  <2>1. n \in Numbers /\ n \notin Present
    BY <1>1 DEF Numbers, Present, TypeOK, Empty
  <2>2. \A m \in Present : m \in Nat /\ m <= used
    BY NumbersOfRecords DEF Numbers
  <2> QED
    BY <1>1, <2>1, <2>2
<1>3. /\ start' = start /\ runs'[n].status = "RUNNING"
      /\ runs'[n].user = u /\ runs'[n].time = now
      /\ \A m \in Numbers : m # n => runs'[m] = runs[m]
  BY <1>2 DEF Submit, table, TypeOK
<1>4. start[u] # 0 /\ stop[u] = 0 /\ now <= start[u] + Duration
  <2>1. start[u] # 0 /\ CurrentStop(u) = 0
    BY DEF Submit, MaySubmit
  <2> QED
    BY <2>1, TypesOfTime DEF CurrentStop
<1>5. \A m \in Own(u) : runs[m].status # "VSTOP"
  BY <1>4, NoTimeNoStop
<1>6. n \in Nat
  BY <1>1
<1> HIDE DEF n
<1>7. Present' = Present \cup {n} /\ \A m \in Present : m \in Numbers /\ runs'[m] = runs[m]
  BY <1>2, <1>3 DEF Present
<1>8. /\ \A v \in Users : v # u => Own(v)' = Own(v)
      /\ Own(u)' = Own(u) \cup {n}
      /\ \A v \in Users : Own(v) \subseteq Present
  BY <1>2, <1>3, <1>7 DEF Own
<1>9. \A m \in Present : runs[m].time \in Nat /\ runs[m].time <= now
  BY TypesOfTime DEF KeptLog
<1>10. \A a, b \in Present' : a < b => runs'[a].time <= runs'[b].time
  BY <1>2, <1>3, <1>6, <1>7, <1>9, TypesOfTime DEF KeptOrder
<1>11. ASSUME NEW v \in Users, NEW m \in Own(v)'
       PROVE  /\ start'[v] # 0 /\ runs'[m].time <= start'[v] + Duration
              /\ runs'[m].status = "VSTART" => \A k \in Own(v)' : k >= m
              /\ runs'[m].status = "VSTOP" => \A k \in Own(v)' : k <= m
  <2>1. CASE v # u
    BY <1>3, <1>7, <1>8, <2>1 DEF KeptOrder
  <2>2. CASE v = u /\ m = n
    BY <1>3, <1>4, <2>2
  <2>3. CASE v = u /\ m # n
    <3>1. m \in Own(u) /\ runs'[m] = runs[m] /\ m < n /\ m \in Nat
      BY <1>2, <1>7, <1>8, <2>3
    <3>2. runs[m].status # "VSTOP"
      BY <1>5, <3>1
    <3>3. runs[m].status = "VSTART" => \A k \in Own(u)' : k >= m
      BY <1>6, <1>8, <3>1 DEF KeptOrder
    <3> QED
      BY <1>3, <2>3, <3>1, <3>2, <3>3 DEF KeptOrder
  <2> QED
    BY <2>1, <2>2, <2>3
<1> QED
  BY <1>10, <1>11 DEF KeptOrder

LEMMA OrderClear ==
    ASSUME TInv, KeptOrder, NEW n \in Present, Clear(n)
    PROVE  KeptOrder'
<1> USE DEF TInv, IInv
<1>1. n \in Numbers
  BY DEF Present
<1>2. /\ start' = start /\ runs'[n] = Empty
      /\ \A m \in Numbers : m # n => runs'[m] = runs[m]
  BY <1>1 DEF Clear, TypeOK
<1>3. Present' = Present \ {n} /\ \A m \in Present' : runs'[m] = runs[m]
  BY <1>1, <1>2 DEF Present, Empty
<1>4. \A v \in Users : /\ Own(v)' = Own(v) \ {n}
                       /\ \A m \in Own(v)' : runs'[m] = runs[m]
  BY <1>2, <1>3 DEF Own, Present
<1> QED
  BY <1>2, <1>3, <1>4 DEF KeptOrder

LEMMA OInvNext == OInv /\ [Next]_vars => OInv'
<1> SUFFICES ASSUME TInv, KeptOrder, [Next]_vars PROVE KeptOrder'
  BY TInvNext DEF OInv
<1> USE DEF TInv, IInv
<1>1. ASSUME NEW u \in Users, Begin(u) PROVE KeptOrder'
  <2>1. used < MaxLog /\ now \in 1 .. now
    BY <1>1, RoomForOne, TypesOfTime DEF Begin
  <2> QED
    BY <1>1, <2>1, InsertOrder DEF Begin
<1>2. ASSUME NEW u \in Users, VirtualStop(u) PROVE KeptOrder'
  <2>1. start[u] # 0 /\ CurrentStop(u) = 0
    BY <1>2 DEF VirtualStop
  <2>2. stop[u] = 0 /\ now <= start[u] + Duration /\ now \in 1 .. now
    BY <2>1, TypesOfTime DEF CurrentStop
  <2>3. \A m \in Own(u) : runs[m].time <= now
    BY TypesOfTime DEF Own, KeptLog
  <2> QED
    BY <1>2, <2>1, <2>2, <2>3, InsertOrder DEF VirtualStop
<1>3. ASSUME NEW u \in Users, View(u) \/ SubmitFails(u) PROVE KeptOrder'
  BY <1>3, RestartTimes, SameRuns, SameOrder DEF View, SubmitFails, log, table
<1>4. ASSUME NEW n \in Submitted, Rejudge(n) \/ Skip(n) PROVE KeptOrder'
  BY <1>4, JudgeRecords, SameOrder DEF Rejudge, Skip, table
<1>5. ASSUME NEW p \in replies, ReadReply(p) PROVE KeptOrder'
  BY <1>5, ReplyRecords, SameOrder DEF ReadReply, table
<1>6. CASE Request
  <2>1. ASSUME NEW u \in Users,
               \/ View(u) \/ VirtualStart(u) \/ ForceStart(u)
               \/ VirtualStop(u) \/ Submit(u) \/ SubmitFails(u)
        PROVE  KeptOrder'
    BY <1>1, <1>2, <1>3, <2>1, OrderSubmit DEF VirtualStart, ForceStart
  <2> QED
    BY <1>4, <1>5, <1>6, <2>1, OrderClear DEF Request
<1>7. CASE Tick \/ UNCHANGED vars
  BY <1>7, SameRuns, SameOrder DEF Tick, vars, log, table
<1>8. CASE Restart
  BY <1>8, RestartTimes, SameRuns, SameOrder
<1> QED
  BY <1>6, <1>7, <1>8, OrderHandle DEF Next

LEMMA OInvHolds == Spec => []OInv
<1>1. Init => OInv
  <2>1. Init => KeptStops /\ KeptOrder
    BY DEF Init, KeptStops, KeptOrder, Own, Present, Empty
  <2> QED
    BY <2>1, InvInit DEF OInv, TInv
<1> QED
  BY <1>1, OInvNext, PTL DEF Spec

\* A load finds nothing to clear or to hide: starts come first, stops last,
\* and submits are in time, in every order in which stops are handled
\* (serve_collect_virtual_stop_events, get_insert_run_id).
THEOREM NothingIsToRepair == Spec => []NothingToRepair
<1>1. OInv => NothingToRepair
  <2> SUFFICES ASSUME OInv, NEW u \in Users, NEW n \in Own(u)
               PROVE  /\ \E s \in Own(u) :
                            /\ s <= n /\ runs[s].status = "VSTART"
                            /\ runs[n].time <= runs[s].time + Duration
                      /\ runs[n].status = "VSTART" => \A m \in Own(u) : m >= n
                      /\ runs[n].status = "VSTOP" => \A m \in Own(u) : m <= n
    BY DEF NothingToRepair
  <2> USE DEF OInv, TInv, IInv
  <2>1. start[u] # 0 /\ runs[n].time <= start[u] + Duration
    BY DEF KeptOrder
  <2>2. PICK s \in Own(u) : runs[s].status = "VSTART" /\ runs[s].time = start[u]
    BY <2>1 DEF KeptLog
  <2>3. n >= s /\ s \in Nat /\ n \in Nat
    BY <2>2 DEF KeptOrder, Own, Present, Numbers
  <2>4. s <= n
    BY <2>3
  <2> QED
    BY <2>1, <2>2, <2>4 DEF KeptOrder
<1> QED
  BY <1>1, OInvHolds, PTL

-----------------------------------------------------------------------------
(* Replies under way.  With archives by number a reply knows its run by    *)
(* number, and an insertion that would move a run under way is refused.    *)

Answered ==
    \A n \in Numbers : runs[n].status = "RUNNING" =>
        \E p \in replies : /\ p.num = n /\ p.id = runs[n].id
                           /\ p.judge = runs[n].judge

LEMMA AnsweredKeeps ==
    ASSUME Answered, replies \subseteq replies',
           \A n \in Numbers : runs'[n].status = "RUNNING" =>
              \/ /\ runs[n].status = "RUNNING" /\ runs'[n].id = runs[n].id
                 /\ runs'[n].judge = runs[n].judge
              \/ \E p \in replies' : /\ p.num = n /\ p.id = runs'[n].id
                                      /\ p.judge = runs'[n].judge
    PROVE  Answered'
BY DEF Answered

\* Runs under way keep their numbers.
LEMMA AnsweredInsert ==
    ASSUME IInv, Answered, NEW s \in {"VSTART", "VSTOP"}, NEW u \in Users,
           NEW t \in Nat, used < MaxLog, Insert(s, u, t), replies' = replies
    PROVE  Answered'
<1> USE DEF IInv
<1> DEFINE n == Position(t)
           e == [status |-> s, user |-> u, id |-> 0, time |-> t, judge |-> 0]
<1>a. /\ n \in Numbers /\ runs'[n] = e
      /\ \A m \in Numbers : m < n => runs'[m] = runs[m]
      /\ \A m \in Numbers : m > n => m - 1 \in Numbers /\ runs'[m] = runs[m - 1]
      /\ \A m \in Numbers : m >= n /\ m <= used =>
            m + 1 \in Numbers /\ runs'[m + 1] = runs[m]
  BY InsertedRecords
<1>1. n \in Numbers /\ runs'[n] = e
  BY <1>a
<1>2. \A m \in Numbers : m < n => runs'[m] = runs[m]
  BY <1>a
<1>3. \A m \in Numbers : m > n => m - 1 \in Numbers /\ runs'[m] = runs[m - 1]
  BY <1>a
<1>4. \A m \in n .. used : runs[m].status # "RUNNING"
  BY DEF Insert, MayInsert, Transient
<1>5. ASSUME NEW m \in Numbers, runs'[m].status = "RUNNING"
      PROVE  runs'[m] = runs[m]
  <2>1. m # n
    BY <1>1, <1>5
  <2>2. ASSUME m > n PROVE FALSE
    <3>1. m - 1 \in Numbers /\ runs[m - 1].status = "RUNNING"
      BY <1>3, <1>5, <2>2
    <3>2. m - 1 <= used
      BY <3>1, RunLogAssumption DEF TypeOK, Numbers, Empty
    <3>3. m - 1 \in n .. used
      BY <1>1, <2>2, <3>2, RunLogAssumption DEF TypeOK, Numbers
    <3> QED
      BY <1>4, <3>1, <3>3
  <2>3. m < n \/ m = n \/ m > n
    BY <1>1 DEF Numbers
  <2> QED
    BY <1>2, <2>1, <2>2, <2>3
<1> QED
  BY <1>5, AnsweredKeeps

LEMMA AnsweredHandleJudge ==
    ASSUME IInv, Answered, NEW e \in events, HandleJudge(e)
    PROVE  Answered'
<1> USE DEF IInv
<1> DEFINE vs == Greatest(InList(e.user, "VSTART"))
           m == ToJudge(e.user)
<1>1. e.user \in Users
  BY DEF TypeOK, Events
<1>2. CASE ~ListIsOwn(e.user)
  BY <1>2, RestartTimes, AnsweredKeeps DEF HandleJudge, Restart
<1>3. CASE ListIsOwn(e.user) /\ HasTime(e.user) /\ runs[vs].judge = 0
  <2>1. JudgeUser(e.user, vs)
    BY <1>3 DEF HandleJudge
  <2>2. runs[vs].status = "VSTART"
    BY <1>1, <1>3, StartOfTime
  <2>3. runs' = [n \in Numbers |->
                   IF n = vs THEN [runs[n] EXCEPT !.judge = 1]
                   ELSE IF n = m
                   THEN [runs[n] EXCEPT !.status = "RUNNING", !.judge = asked + 1]
                   ELSE runs[n]]
    BY <2>1 DEF JudgeUser
  <2>4. IF m = 0 THEN replies' = replies ELSE replies' = replies \cup {Asked(m)}
    BY <2>1 DEF JudgeUser
  <2>5. /\ \A n \in Numbers : runs[n] \in Entries /\ n # 0
        /\ m # 0 => Asked(m) \in replies'
        /\ replies \subseteq replies'
    BY <2>4 DEF TypeOK, Numbers
  <2> HIDE DEF vs, m
  <2>6. ASSUME NEW n \in Numbers, runs'[n].status = "RUNNING"
        PROVE  \/ runs'[n] = runs[n]
               \/ \E p \in replies' : /\ p.num = n /\ p.id = runs'[n].id
                                       /\ p.judge = runs'[n].judge
    <3>1. CASE n = vs
      BY <2>2, <2>3, <2>5, <2>6, <3>1 DEF Entries
    <3>2. CASE n # vs /\ n = m
      <4>1. Asked(n) \in replies' /\ Asked(n).num = n /\ Asked(n).id = runs[n].id
            /\ Asked(n).judge = asked + 1
        BY <2>5, <3>2 DEF Asked
      <4>2. runs'[n].id = runs[n].id /\ runs'[n].judge = asked + 1
        BY <2>3, <2>5, <3>2 DEF Entries
      <4> QED
        BY <4>1, <4>2
    <3>3. CASE n # vs /\ n # m
      BY <2>3, <3>3
    <3> QED
      BY <3>1, <3>2, <3>3
  <2> QED
    BY <2>5, <2>6, AnsweredKeeps
<1>4. CASE ListIsOwn(e.user) /\ ~(HasTime(e.user) /\ runs[vs].judge = 0)
  BY <1>4, AnsweredKeeps DEF HandleJudge
<1> QED
  BY <1>2, <1>3, <1>4

\* A reply that is dropped was not the one its run waits for.
LEMMA AnsweredReadReply ==
    ASSUME ~UuidStore, IInv, Answered, NEW p \in replies, ReadReply(p)
    PROVE  Answered'
<1> USE DEF IInv
<1> SUFFICES ASSUME NEW n \in Numbers, runs'[n].status = "RUNNING"
             PROVE  \E q \in replies' : /\ q.num = n /\ q.id = runs'[n].id
                                        /\ q.judge = runs'[n].judge
  BY DEF Answered
<1>1. Target(p) = p.num
  BY DEF Target
<1>2. runs'[n] = runs[n] /\ ~(Awaited(p) /\ p.num = n)
  <2>1. CASE Awaited(p)
    <3>1. runs' = [runs EXCEPT ![p.num].status = "OK", ![p.num].judge = 0]
      BY <1>1, <2>1 DEF ReadReply
    <3>2. n # p.num
      BY <3>1 DEF TypeOK, Entries
    <3> QED
      BY <3>1, <3>2 DEF TypeOK
  <2>2. CASE ~Awaited(p)
    BY <2>2 DEF ReadReply
  <2> QED
    BY <2>1, <2>2
<1>3. PICK q \in replies : q.num = n /\ q.id = runs[n].id /\ q.judge = runs[n].judge
  BY <1>2 DEF Answered
<1>4. n \in 1 .. used
  BY <1>2, RunLogAssumption DEF TypeOK, Numbers, Empty
<1>5. q # p
  BY <1>1, <1>2, <1>3, <1>4 DEF Awaited
<1> QED
  BY <1>2, <1>3, <1>5 DEF ReadReply

LEMMA AnsweredNext ==
    ASSUME ~UuidStore, IInv, Answered, [Next]_vars
    PROVE  Answered'
<1> USE DEF IInv
<1>1. ASSUME NEW e \in events, HandleStop(e) PROVE Answered'
  <2>1. e.user \in Users /\ e.time \in Nat
    BY DEF TypeOK, Events, Times
  <2> QED
    BY <1>1, <2>1, AnsweredInsert, AnsweredKeeps DEF HandleStop, log
<1>2. ASSUME NEW u \in Users, Begin(u) \/ VirtualStop(u) PROVE Answered'
  <2>1. used < MaxLog /\ now \in Nat
    BY <1>2, RoomForOne, TypesOfTime DEF Begin, VirtualStop
  <2> QED
    BY <1>2, <2>1, AnsweredInsert DEF Begin, VirtualStop
<1>3. ASSUME NEW u \in Users, Submit(u) PROVE Answered'
  <2> DEFINE k == used + 1
             q == [num |-> k, id |-> submits + 1, judge |-> asked + 1]
  <2>1. used < MaxLog /\ used \in Nat /\ MaxLog \in Nat
    BY <1>3, RoomForOne, RunLogAssumption DEF Submit, TypeOK
  <2>2. k \in Numbers
    BY <2>1 DEF Numbers
  <2>3. /\ replies' = replies \cup {q}
        /\ runs'[k].id = submits + 1 /\ runs'[k].judge = asked + 1
        /\ \A n \in Numbers : n # k => runs'[n] = runs[n]
    BY <1>3, <2>2 DEF Submit, TypeOK
  <2>4. \E p \in replies' : /\ p.num = k /\ p.id = runs'[k].id
                            /\ p.judge = runs'[k].judge
    <3>1. q \in replies' /\ q.num = k /\ q.id = submits + 1 /\ q.judge = asked + 1
      BY <2>3
    <3> QED
      BY <2>3, <3>1
  <2>5. replies \subseteq replies'
    BY <2>3
  <2> HIDE DEF k, q
  <2> QED
    BY <2>3, <2>4, <2>5, AnsweredKeeps
<1>4. ASSUME NEW n \in Submitted, Rejudge(n) PROVE Answered'
  <2>1. /\ n \in Numbers /\ replies' = replies \cup {Asked(n)}
        /\ runs'[n].id = runs[n].id /\ runs'[n].judge = asked + 1
        /\ \A m \in Numbers : m # n => runs'[m] = runs[m]
    BY <1>4 DEF Rejudge, Submitted, TypeOK, Entries
  <2>2. Asked(n) \in replies' /\ Asked(n).num = n /\ Asked(n).id = runs[n].id
        /\ Asked(n).judge = asked + 1
    BY <2>1 DEF Asked
  <2>3. \E p \in replies' : /\ p.num = n /\ p.id = runs'[n].id
                            /\ p.judge = runs'[n].judge
    BY <2>1, <2>2
  <2>4. replies \subseteq replies'
    BY <2>1
  <2> QED
    BY <2>1, <2>3, <2>4, AnsweredKeeps
<1>5. ASSUME NEW n \in Submitted, Skip(n) PROVE Answered'
  <2>1. /\ n \in Numbers /\ replies' = replies
        /\ runs'[n].status = "SKIPPED"
        /\ \A m \in Numbers : m # n => runs'[m] = runs[m]
    BY <1>5 DEF Skip, Submitted, TypeOK, Entries
  <2> QED
    BY <2>1, AnsweredKeeps
<1>6. ASSUME NEW n \in Present, Clear(n) PROVE Answered'
  <2>1. /\ n \in Numbers /\ replies' = replies
        /\ runs'[n].status = "EMPTY"
        /\ \A m \in Numbers : m # n => runs'[m] = runs[m]
    BY <1>6 DEF Clear, Present, TypeOK, Empty
  <2> QED
    BY <2>1, AnsweredKeeps
<1>7. ASSUME NEW u \in Users, View(u) \/ SubmitFails(u) PROVE Answered'
  BY <1>7, RestartTimes, AnsweredKeeps DEF View, SubmitFails, Restart, log
<1>8. CASE Tick \/ UNCHANGED vars
  BY <1>8, AnsweredKeeps DEF Tick, vars, log
<1>9. CASE Restart
  BY <1>9, RestartTimes, AnsweredKeeps DEF Restart
<1>10. CASE Request
  <2>1. ASSUME NEW u \in Users,
               \/ View(u) \/ VirtualStart(u) \/ ForceStart(u)
               \/ VirtualStop(u) \/ Submit(u) \/ SubmitFails(u)
        PROVE  Answered'
    BY <1>2, <1>3, <1>7, <2>1 DEF VirtualStart, ForceStart
  <2> QED
    BY <1>4, <1>5, <1>6, <1>10, <2>1, AnsweredReadReply DEF Request
<1>11. CASE Handle
  BY <1>1, <1>11, AnsweredHandleJudge DEF Handle
<1> QED
  BY <1>8, <1>9, <1>10, <1>11 DEF Next

\* With archives by number every run that waits for a reply will get one,
\* whatever is inserted, judged again or cleared around it
\* (serve_read_run_packet, get_insert_run_id).
THEOREM RunningRunsAreAnswered ==
    ASSUME ~UuidStore
    PROVE  Spec => []RunningIsAnswered
<1>1. Init => Answered
  BY DEF Init, Answered, Empty
<1>2. IInv /\ Answered /\ [Next]_vars => Answered'
  BY AnsweredNext
<1>3. IInv /\ Answered => RunningIsAnswered
  <2> SUFFICES ASSUME IInv, Answered, NEW n \in Submitted, runs[n].status = "RUNNING"
               PROVE  \E p \in replies : Awaited(p) /\ Target(p) = n /\ p.id = runs[n].id
    BY DEF RunningIsAnswered
  <2>1. n \in Numbers /\ n \in 1 .. used
    BY RunLogAssumption DEF Submitted, IInv, TypeOK, Numbers, Empty
  <2>2. PICK p \in replies : p.num = n /\ p.id = runs[n].id /\ p.judge = runs[n].judge
    BY <2>1 DEF Answered
  <2> QED
    BY <2>1, <2>2 DEF Awaited, Target
<1> QED
  BY <1>1, <1>2, <1>3, InvHolds, PTL DEF Spec

-----------------------------------------------------------------------------
(* Each user's list.  With archives by number every record from the new    *)
(* one on is moved, so that all their users get new lists.                 *)

ListsKept ==
    /\ \A u \in Users : list[u] # None =>
          /\ list[u] \subseteq Own(u)
          /\ \A n \in Own(u) : runs[n].id \notin skipped => n \in list[u]
    /\ \A n \in Numbers : runs[n].status = "SKIPPED" => runs[n].id \in skipped

LEMMA ListKept ==
    ASSUME ListsKept, NEW u \in Users
    PROVE  /\ ListOf(u) \subseteq Own(u)
           /\ \A n \in Own(u) : runs[n].id \notin skipped => n \in ListOf(u)
BY DEF ListsKept, ListOf, Listed, Own, Present

\* Where the records stay, lists are kept, made again or forgotten.
LEMMA ListsSame ==
    ASSUME TypeOK, ListsKept, skipped \subseteq skipped',
           \A n \in Numbers : SameRecord(n),
           \A n \in Numbers : runs'[n].status = "SKIPPED" =>
              runs[n].status = "SKIPPED" \/ runs[n].id \in skipped',
           \A u \in Users : list'[u] \in {list[u], None, ListOf(u)}
    PROVE  ListsKept'
<1>1. \A n \in Numbers :
         /\ runs'[n].status = "EMPTY" <=> runs[n].status = "EMPTY"
         /\ runs'[n].id = runs[n].id /\ runs'[n].user = runs[n].user
  BY DEF SameRecord, Pseudo
<1>2. \A u \in Users : Own(u)' = Own(u) /\ Own(u) \subseteq Numbers
  BY <1>1 DEF Own, Present
<1>3. \A n \in Numbers : runs'[n].status = "SKIPPED" => runs'[n].id \in skipped'
  BY <1>1 DEF ListsKept
<1>4. ASSUME NEW u \in Users, list'[u] # None
      PROVE  /\ list'[u] \subseteq Own(u)'
             /\ \A n \in Own(u)' : runs'[n].id \notin skipped' => n \in list'[u]
  <2>1. list'[u] = ListOf(u)
    BY <1>4 DEF ListOf
  <2> QED
    BY <1>1, <1>2, <2>1, ListKept
<1> QED
  BY <1>3, <1>4 DEF ListsKept

LEMMA ListsInsert ==
    ASSUME ~UuidStore, TypeOK, ListsKept, NEW s \in {"VSTART", "VSTOP"},
           NEW u \in Users, NEW t \in Nat, used < MaxLog, Insert(s, u, t),
           skipped' = skipped
    PROVE  ListsKept'
<1> DEFINE n == Position(t)
           e == [status |-> s, user |-> u, id |-> 0, time |-> t, judge |-> 0]
<1>a. /\ n \in Numbers /\ runs'[n] = e
      /\ \A m \in Numbers : m < n => runs'[m] = runs[m]
      /\ \A m \in Numbers : m > n => m - 1 \in Numbers /\ runs'[m] = runs[m - 1]
      /\ \A m \in Numbers : m >= n /\ m <= used =>
            m + 1 \in Numbers /\ runs'[m + 1] = runs[m]
  BY InsertedRecords
<1>1. n \in Numbers /\ runs'[n] = e
  BY <1>a
<1>2. \A m \in Numbers : m < n => runs'[m] = runs[m]
  BY <1>a
<1>3. \A m \in Numbers : m > n => m - 1 \in Numbers /\ runs'[m] = runs[m - 1]
  BY <1>a
<1>4. MovedFrom(n) = n .. used
  BY DEF MovedFrom
<1>5. list' = [v \in Users |-> IF v \in MovedUsers(n) \cup {u} THEN None ELSE list[v]]
  BY DEF Insert, Forget
<1>6. /\ \A m \in Numbers : m \in Nat /\ (m < n \/ m = n \/ m > n)
      /\ used \in Nat /\ n \in Nat
  BY <1>1, RunLogAssumption DEF Numbers, TypeOK
<1>7. ASSUME NEW v \in Users, v \notin MovedUsers(n), NEW m \in Own(v)
      PROVE  m < n /\ m \in Numbers
  <2>1. m \in Numbers /\ m <= used /\ runs[m].user = v
    BY NumbersOfRecords DEF Own
  <2>2. m \notin n .. used
    BY <1>4, <1>7, <2>1 DEF MovedUsers
  <2> QED
    BY <1>6, <2>1, <2>2
<1>8. ASSUME NEW m \in Numbers, m > n, runs'[m].status # "EMPTY"
      PROVE  m - 1 \in MovedFrom(n) /\ runs'[m] = runs[m - 1]
  <2>1. m - 1 \in Numbers /\ runs'[m] = runs[m - 1]
    BY <1>3, <1>8
  <2>2. m - 1 <= used
    BY <1>6, <1>8, <2>1 DEF TypeOK, Empty
  <2>3. m - 1 \in n .. used
    BY <1>6, <1>8, <2>2
  <2> QED
    BY <1>4, <2>1, <2>3
<1> HIDE DEF n
<1>9. ASSUME NEW v \in Users, list'[v] # None
      PROVE  /\ list'[v] \subseteq Own(v)'
             /\ \A m \in Own(v)' : runs'[m].id \notin skipped' => m \in list'[v]
  <2>1. v # u /\ v \notin MovedUsers(n) /\ list'[v] = list[v]
    BY <1>5, <1>9
  <2>2. \A m \in Own(v) : m \in Own(v)'
    BY <1>2, <1>7, <2>1 DEF Own, Present
  <2>3. ASSUME NEW m \in Own(v)' PROVE m \in Own(v) /\ runs'[m] = runs[m]
    <3>1. m \in Numbers /\ runs'[m].status # "EMPTY" /\ runs'[m].user = v
      BY <2>3 DEF Own, Present
    <3>2. m # n
      BY <1>1, <2>1, <3>1
    <3>3. ~(m > n)
      BY <1>8, <2>1, <3>1 DEF MovedUsers
    <3>4. runs'[m] = runs[m]
      BY <1>2, <1>6, <3>1, <3>2, <3>3
    <3> QED
      BY <3>1, <3>4 DEF Own, Present
  <2> QED
    BY <1>9, <2>1, <2>2, <2>3 DEF ListsKept
<1>10. ASSUME NEW m \in Numbers, runs'[m].status = "SKIPPED"
       PROVE  runs'[m].id \in skipped'
  <2>1. m # n
    BY <1>1, <1>10
  <2> QED
    BY <1>2, <1>3, <1>6, <1>10, <2>1 DEF ListsKept
<1> QED
  BY <1>9, <1>10 DEF ListsKept

LEMMA ListsHandle ==
    ASSUME ~UuidStore, IInv, ListsKept, Handle
    PROVE  ListsKept'
<1> USE DEF IInv
<1>1. PICK e \in events : HandleStop(e) \/ HandleJudge(e)
  BY DEF Handle
<1>2. e.user \in Users /\ e.time \in Nat
  BY DEF TypeOK, Events, Times
<1>3. GetUserEntry(e.user) => \A u \in Users : list'[u] \in {list[u], None, ListOf(u)}
  BY DEF GetUserEntry, TypeOK
<1>4. CASE HandleStop(e)
  <2>1. skipped' = skipped
    BY <1>4 DEF HandleStop, counts
  <2>2. CASE MayStop(e.user, e.time)
    BY <1>2, <1>4, <2>1, <2>2, ListsInsert DEF HandleStop
  <2>3. CASE ~MayStop(e.user, e.time)
    BY <1>3, <1>4, <2>1, <2>3, SameRuns, ListsSame DEF HandleStop, log
  <2> QED
    BY <2>2, <2>3
<1>5. CASE HandleJudge(e)
  <2>1. ListIsOwn(e.user)
    BY <1>2, ListKept, NumbersOfRecords DEF ListIsOwn, Own
  <2>2. GetUserEntry(e.user) /\ skipped' = skipped
    BY <1>5, <2>1 DEF HandleJudge
  <2>3. ASSUME NEW n \in Numbers, runs'[n].status = "SKIPPED"
        PROVE  runs[n].status = "SKIPPED"
    <3> DEFINE vs == Greatest(InList(e.user, "VSTART"))
    <3>1. runs[n] \in Entries
      BY DEF TypeOK
    <3>2. CASE HasTime(e.user) /\ runs[vs].judge = 0
      <4>1. JudgeUser(e.user, vs)
        BY <1>5, <2>1, <3>2 DEF HandleJudge
      <4> HIDE DEF vs
      <4> QED
        BY <2>3, <3>1, <4>1 DEF JudgeUser, Entries
    <3>3. CASE ~(HasTime(e.user) /\ runs[vs].judge = 0)
      BY <1>5, <2>1, <2>3, <3>3 DEF HandleJudge
    <3> QED
      BY <3>2, <3>3
  <2> QED
    BY <1>3, <1>5, <2>1, <2>2, <2>3, HandleJudgeRecords, ListsSame
<1> QED
  BY <1>1, <1>4, <1>5

LEMMA ListsSubmit ==
    ASSUME IInv, ListsKept, NEW u \in Users, Submit(u)
    PROVE  ListsKept'
<1> USE DEF IInv
<1> DEFINE n == used + 1
<1>1. used < MaxLog /\ used \in Nat /\ MaxLog \in Nat
  BY RoomForOne, RunLogAssumption DEF Submit, TypeOK
<1>2. n \in Numbers /\ n \notin Present
  BY <1>1 DEF Numbers, Present, TypeOK, Empty
<1>3. /\ runs'[n].status = "RUNNING" /\ runs'[n].user = u
      /\ \A m \in Numbers : m # n => runs'[m] = runs[m]
      /\ list' = [list EXCEPT ![u] = ListOf(u) \cup {n}] /\ skipped' = skipped
  BY <1>2 DEF Submit, TypeOK
<1> HIDE DEF n
<1>4. Present' = Present \cup {n} /\ \A m \in Present : m \in Numbers /\ runs'[m] = runs[m]
  BY <1>2, <1>3 DEF Present
<1>5. /\ \A v \in Users : v # u => Own(v)' = Own(v)
      /\ Own(u)' = Own(u) \cup {n}
      /\ \A v \in Users : Own(v) \subseteq Present
  BY <1>2, <1>3, <1>4 DEF Own
<1>6. ASSUME NEW v \in Users, list'[v] # None
      PROVE  /\ list'[v] \subseteq Own(v)'
             /\ \A m \in Own(v)' : runs'[m].id \notin skipped' => m \in list'[v]
  <2>1. CASE v = u
    <3>1. list'[u] = ListOf(u) \cup {n}
      BY <1>3 DEF TypeOK
    <3> QED
      BY <1>3, <1>4, <1>5, <2>1, <3>1, ListKept
  <2>2. CASE v # u
    <3>1. list'[v] = list[v]
      BY <1>3, <2>2 DEF TypeOK
    <3> QED
      BY <1>3, <1>4, <1>5, <1>6, <2>2, <3>1 DEF ListsKept
  <2> QED
    BY <2>1, <2>2
<1>7. \A m \in Numbers : runs'[m].status = "SKIPPED" => runs'[m].id \in skipped'
  BY <1>3 DEF ListsKept
<1> QED
  BY <1>6, <1>7 DEF ListsKept

LEMMA ListsClear ==
    ASSUME IInv, ListsKept, NEW n \in Present, Clear(n)
    PROVE  ListsKept'
<1> USE DEF IInv
<1>1. n \in Numbers
  BY DEF Present
<1>2. /\ runs'[n] = Empty /\ skipped' = skipped
      /\ \A m \in Numbers : m # n => runs'[m] = runs[m]
      /\ list' = [v \in Users |-> IF v = runs[n].user THEN None ELSE list[v]]
  BY <1>1 DEF Clear, Forget, TypeOK
<1>3. Present' = Present \ {n} /\ \A m \in Present' : runs'[m] = runs[m]
  BY <1>1, <1>2 DEF Present, Empty
<1>4. \A v \in Users : v # runs[n].user =>
         /\ Own(v)' = Own(v) /\ \A m \in Own(v) : runs'[m] = runs[m]
  BY <1>2, <1>3 DEF Own, Present
<1>5. \A m \in Numbers : runs'[m].status = "SKIPPED" => runs'[m].id \in skipped'
  BY <1>2 DEF ListsKept, Empty
<1> QED
  BY <1>2, <1>4, <1>5 DEF ListsKept

LEMMA ListsNext ==
    ASSUME ~UuidStore, IInv, ListsKept, [Next]_vars
    PROVE  ListsKept'
<1> USE DEF IInv
<1>1. ASSUME NEW u \in Users, Begin(u) \/ VirtualStop(u), skipped' = skipped
      PROVE  ListsKept'
  <2>1. used < MaxLog /\ now \in Nat
    BY <1>1, RoomForOne, TypesOfTime DEF Begin, VirtualStop
  <2> QED
    BY <1>1, <2>1, ListsInsert DEF Begin, VirtualStop
<1>2. CASE Restart
  <2>1. \A u \in Users : list'[u] = None
    BY <1>2 DEF Restart
  <2>2. runs' = runs /\ skipped' = skipped
    BY <1>2 DEF Restart, log
  <2> QED
    BY <2>1, <2>2, SameRuns, ListsSame
<1>3. ASSUME NEW u \in Users, View(u) PROVE ListsKept'
  <2>1. CASE ~ListIsOwn(u)
    BY <1>2, <1>3, <2>1 DEF View
  <2>2. CASE ListIsOwn(u)
    <3>1. GetUserEntry(u) /\ runs' = runs /\ skipped' = skipped
      BY <1>3, <2>2 DEF View, log, counts
    <3>2. \A v \in Users : list'[v] \in {list[v], None, ListOf(v)}
      BY <3>1 DEF GetUserEntry, TypeOK
    <3> QED
      BY <3>1, <3>2, SameRuns, ListsSame
  <2> QED
    BY <2>1, <2>2
<1>4. ASSUME NEW u \in Users, SubmitFails(u) PROVE ListsKept'
  <2>1. runs' = runs /\ skipped' = skipped
    BY <1>4 DEF SubmitFails, log, counts
  <2>2. \A v \in Users : list'[v] \in {list[v], None, ListOf(v)}
    BY <1>4 DEF SubmitFails, Forget
  <2> QED
    BY <2>1, <2>2, SameRuns, ListsSame
<1>5. ASSUME NEW n \in Submitted, Rejudge(n) \/ Skip(n) PROVE ListsKept'
  <2>1. list' = list /\ skipped \subseteq skipped'
    BY <1>5 DEF Rejudge, Skip
  <2>2. \A m \in Numbers : runs'[m].status = "SKIPPED" =>
           runs[m].status = "SKIPPED" \/ runs[m].id \in skipped'
    BY <1>5 DEF Rejudge, Skip, TypeOK, Entries, Submitted
  <2> QED
    BY <1>5, <2>1, <2>2, JudgeRecords, ListsSame
<1>6. ASSUME NEW p \in replies, ReadReply(p) PROVE ListsKept'
  <2>1. list' = list /\ skipped' = skipped
    BY <1>6 DEF ReadReply, counts
  <2>2. \A m \in Numbers : runs'[m].status = "SKIPPED" => runs[m].status = "SKIPPED"
    BY <1>6 DEF ReadReply, TypeOK, Entries
  <2> QED
    BY <1>6, <2>1, <2>2, ReplyRecords, ListsSame
<1>7. CASE Tick \/ UNCHANGED vars
  BY <1>7, SameRuns, ListsSame DEF Tick, vars, log, counts
<1>8. CASE Request
  <2>1. ASSUME NEW u \in Users,
               \/ View(u) \/ VirtualStart(u) \/ ForceStart(u)
               \/ VirtualStop(u) \/ Submit(u) \/ SubmitFails(u)
        PROVE  ListsKept'
    <3>1. VirtualStart(u) \/ ForceStart(u) => Begin(u) /\ skipped' = skipped
      BY DEF VirtualStart, ForceStart, counts
    <3>2. VirtualStop(u) => skipped' = skipped
      BY DEF VirtualStop, counts
    <3> QED
      BY <1>1, <1>3, <1>4, <2>1, <3>1, <3>2, ListsSubmit
  <2> QED
    BY <1>5, <1>6, <1>8, <2>1, ListsClear DEF Request
<1> QED
  BY <1>2, <1>7, <1>8, ListsHandle DEF Next

LEMMA ListsHold ==
    ASSUME ~UuidStore
    PROVE  Spec => []ListsKept
<1>1. Init => ListsKept
  BY DEF Init, ListsKept, Empty
<1>2. IInv /\ ListsKept /\ [Next]_vars => ListsKept'
  BY ListsNext
<1> QED
  BY <1>1, <1>2, InvHolds, PTL DEF Spec

\* With archives by number, a list that is taken for valid holds the user's
\* own records and all that were never skipped, although numbers move
\* (get_user_entry, run_clear_index).
THEOREM ListsAreFollowed ==
    ASSUME ~UuidStore
    PROVE  Spec => []ListsFollowLog
<1>1. ListsKept => ListsFollowLog
  BY DEF ListsKept, ListsFollowLog, Own
<1> QED
  BY <1>1, ListsHold, PTL

\* With archives by number, a participant is judged when none of his submits
\* waits for a first result, except those that were skipped once: the list
\* that handle_judge_olympiad_event walks has all the others.
THEOREM JudgedWhenAnswered ==
    ASSUME ~UuidStore
    PROVE  Spec => JudgedAfterReplies
<1> DEFINE Judged(u) == \E m \in Numbers : /\ runs'[m].user = u /\ runs'[m].judge = 1
                                           /\ runs'[m].status = "VSTART"
           Waiting(u) == {m \in Own(u) : runs[m].status = "RUNNING"
                                         /\ runs[m].id \notin skipped}
<1>1. ASSUME OInv, ListsKept, [Next]_vars, NEW u \in Users, NEW n \in Begun(u),
             Judged(u), runs[n].judge = 0
      PROVE  Waiting(u) = {}
  <2> USE DEF OInv, TInv, IInv
  <2>0. TypeOK
    BY <1>1
  <2>1. PICK m \in Numbers : /\ runs'[m].user = u /\ runs'[m].judge = 1
                             /\ runs'[m].status = "VSTART"
    BY <1>1
  <2>2. ASSUME NEW k \in Numbers, runs[k] = runs'[m] PROVE FALSE
    <3>1. k \in Own(u) /\ n \in Own(u) /\ runs[n].status = "VSTART"
      BY <1>1, <2>1, <2>2 DEF Own, Present, Begun
    <3>2. n >= k /\ k >= n
      BY <1>1, <2>1, <2>2, <3>1 DEF KeptOrder
    <3>3. n = k
      BY <3>1, <3>2 DEF Own, Present, Numbers
    <3> QED
      BY <1>1, <2>1, <2>2, <3>3
  <2>3. ASSUME NEW s \in {"VSTART", "VSTOP"}, NEW v \in Users, NEW t \in Nat,
               used < MaxLog, Insert(s, v, t)
        PROVE  FALSE
    <3> DEFINE p == Position(t)
               e == [status |-> s, user |-> v, id |-> 0, time |-> t, judge |-> 0]
    <3> HIDE DEF OInv, TInv, IInv
    <3>0. /\ p \in Numbers /\ runs'[p] = e
          /\ \A k \in Numbers : k < p => runs'[k] = runs[k]
          /\ \A k \in Numbers : k > p => k - 1 \in Numbers /\ runs'[k] = runs[k - 1]
          /\ \A k \in Numbers : k >= p /\ k <= used =>
                k + 1 \in Numbers /\ runs'[k + 1] = runs[k]
      BY <2>0, <2>3, InsertedRecords
    <3>1. p \in Numbers /\ runs'[p] = e
      BY <3>0
    <3>2. /\ \A k \in Numbers : k < p => runs'[k] = runs[k]
          /\ \A k \in Numbers : k > p => k - 1 \in Numbers /\ runs'[k] = runs[k - 1]
      BY <3>0
    <3>3. m < p \/ m = p \/ m > p
      BY <3>1 DEF Numbers
    <3> QED
      BY <2>1, <2>2, <3>1, <3>2, <3>3
  <2>4. ASSUME NEW e \in events, HandleStop(e) PROVE FALSE
    <3>1. e.user \in Users /\ e.time \in Nat
      BY <1>1 DEF TypeOK, Events, Times
    <3> QED
      BY <2>1, <2>2, <2>3, <2>4, <3>1 DEF HandleStop, log
  <2>5. ASSUME NEW e \in events, HandleJudge(e) PROVE Waiting(u) = {}
    <3> DEFINE vs == Greatest(InList(e.user, "VSTART"))
    <3>1. e.user \in Users
      BY <1>1 DEF TypeOK, Events
    <3>2. ListIsOwn(e.user) /\ ListOf(e.user) \subseteq Own(e.user)
      BY <1>1, <3>1, ListKept, NumbersOfRecords DEF ListIsOwn, Own
    <3>3. CASE ~HasTime(e.user) \/ runs[vs].judge # 0
      BY <2>1, <2>2, <2>5, <3>2, <3>3 DEF HandleJudge
    <3>4. CASE HasTime(e.user) /\ runs[vs].judge = 0
      <4>1. vs \in ListOf(e.user)
        BY <1>1, <3>1, <3>4, StartOfTime
      <4>2. runs[vs].user = e.user
        BY <3>2, <4>1 DEF Own
      <4>3. CASE u = e.user
        <5>1. UnderWay(u) = {}
          BY <2>5, <3>2, <3>4, <4>3 DEF HandleJudge, First, Due, Waits
        <5> QED
          BY <1>1, <4>3, <5>1, ListKept DEF UnderWay, Transient
      <4>4. CASE u # e.user
        <5>1. JudgeUser(e.user, vs)
          BY <2>5, <3>2, <3>4 DEF HandleJudge
        <5>2. runs[m] \in Entries
          BY <1>1 DEF TypeOK
        <5>3. m # vs
          BY <2>1, <4>2, <4>4, <5>1, <5>2 DEF JudgeUser, Entries
        <5>4. runs'[m] = runs[m]
          BY <2>1, <5>1, <5>2, <5>3 DEF JudgeUser, Entries
        <5> QED
          BY <2>2, <5>4
      <4> QED
        BY <4>3, <4>4
    <3> QED
      BY <3>3, <3>4
  <2>6. ASSUME NEW v \in Users, Begin(v) \/ VirtualStop(v) PROVE FALSE
    <3>1. used < MaxLog /\ now \in Nat
      BY <1>1, <2>6, RoomForOne, TypesOfTime DEF Begin, VirtualStop
    <3> QED
      BY <2>3, <2>6, <3>1 DEF Begin, VirtualStop
  <2>7. ASSUME NEW k \in Numbers, NEW s \in Statuses \ {"VSTART"},
               runs'[k].status = s, \A l \in Numbers : l # k => runs'[l] = runs[l]
        PROVE  FALSE
    BY <2>1, <2>2, <2>7
  <2>8. ASSUME runs' = runs PROVE FALSE
    BY <2>1, <2>2, <2>8
  <2>9. CASE Request
    <3>1. ASSUME NEW v \in Users,
                 \/ View(v) \/ VirtualStart(v) \/ ForceStart(v)
                 \/ VirtualStop(v) \/ Submit(v) \/ SubmitFails(v)
          PROVE  FALSE
      <4>1. View(v) \/ SubmitFails(v) => runs' = runs
        BY <1>1, RestartTimes DEF View, SubmitFails, log
      <4>2. CASE Submit(v)
        <5>1. used < MaxLog /\ used \in Nat /\ MaxLog \in Nat
          BY <1>1, <4>2, RoomForOne, RunLogAssumption DEF Submit, TypeOK
        <5>2. used + 1 \in Numbers
          BY <5>1 DEF Numbers
        <5>3. /\ runs'[used + 1].status = "RUNNING" /\ "RUNNING" \in Statuses
              /\ \A l \in Numbers : l # used + 1 => runs'[l] = runs[l]
          BY <1>1, <4>2, <5>2 DEF Submit, TypeOK, Statuses
        <5> QED
          BY <2>7, <5>2, <5>3
      <4> QED
        BY <2>6, <2>8, <3>1, <4>1, <4>2 DEF VirtualStart, ForceStart
    <3>2. ASSUME NEW k \in Submitted, Rejudge(k) \/ Skip(k) PROVE FALSE
      <4>1. /\ k \in Numbers /\ runs'[k].status \in {"RUNNING", "SKIPPED"}
            /\ \A l \in Numbers : l # k => runs'[l] = runs[l]
        BY <1>1, <3>2 DEF Rejudge, Skip, Submitted, TypeOK, Entries
      <4> QED
        BY <2>7, <4>1 DEF Statuses
    <3>3. ASSUME NEW k \in Present, Clear(k) PROVE FALSE
      <4>1. /\ k \in Numbers /\ runs'[k].status = "EMPTY"
            /\ \A l \in Numbers : l # k => runs'[l] = runs[l]
        BY <1>1, <3>3 DEF Clear, Present, TypeOK, Empty
      <4> QED
        BY <2>7, <4>1 DEF Statuses, Pseudo
    <3>4. ASSUME NEW p \in replies, ReadReply(p) PROVE FALSE
      <4>1. CASE Awaited(p)
        <5>1. Target(p) \in Numbers
          BY <1>1, <4>1, RunLogAssumption DEF Awaited, TypeOK, Numbers
        <5>2. /\ runs'[Target(p)].status = "OK" /\ "OK" \in Statuses
              /\ \A l \in Numbers : l # Target(p) => runs'[l] = runs[l]
          BY <1>1, <3>4, <4>1, <5>1 DEF ReadReply, TypeOK, Entries, Statuses
        <5> QED
          BY <2>7, <5>1, <5>2
      <4>2. CASE ~Awaited(p)
        BY <2>8, <3>4, <4>2 DEF ReadReply
      <4> QED
        BY <4>1, <4>2
    <3> QED
      BY <2>9, <3>1, <3>2, <3>3, <3>4 DEF Request
  <2>10. CASE Handle
    BY <2>4, <2>5, <2>10 DEF Handle
  <2>11. CASE Tick \/ Restart \/ UNCHANGED vars
    BY <2>8, <2>11 DEF Tick, Restart, vars, log
  <2> QED
    BY <1>1, <2>9, <2>10, <2>11 DEF Next
<1>2. OInv /\ ListsKept /\ [Next]_vars =>
        [\A u \in Users : \A n \in Begun(u) :
          (\E m \in Numbers : /\ runs'[m].user = u /\ runs'[m].judge = 1
                              /\ runs'[m].status = "VSTART")
          /\ runs[n].judge = 0
          => \A m \in Own(u) : runs[m].status = "RUNNING"
                => runs[m].id \in skipped]_vars
  BY <1>1
<1> QED
  BY <1>2, OInvHolds, ListsHold, PTL DEF Spec, JudgedAfterReplies

=============================================================================

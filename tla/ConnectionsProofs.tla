------------------------- MODULE ConnectionsProofs -------------------------
(***************************************************************************)
(* An import that waits and its client know each other, and testing is     *)
(* what the judges want when no import waits, for every number of CGI      *)
(* programs, runs and faults.                                              *)
(*                                                                         *)
(* Every pass rebuilds the list of clients by changing one client, putting *)
(* a page in front or taking one client out.  Kept says what all of these  *)
(* leave: each client but a page was there before, under the same id and   *)
(* with the same mark.  So at most one client has the id of the import     *)
(* (Known), and a client with the mark that leaves is the one it waits for.*)
(***************************************************************************)
EXTENDS Connections, SequenceTheorems, FiniteSetTheorems, WellFoundedInduction,
        TLAPS

\* A number from Fds, or whatever Lowest is when all are taken
AnyFd == Fds \cup {0} \cup {Lowest(t) : t \in [Fds -> Objects \cup {None}]}

AnyClient ==
    [id : Cgis \cup {None}, fd : AnyFd, out : AnyFd, wait : AnyFd,
     st : ClientStates, marked : BOOLEAN, text : Cgis \cup {None, "ok", "error"}]

PageStates == {"writeclose", "disconnect"}

Kept(cs, ds, h) ==
    /\ h \in [DOMAIN ds -> {0} \cup DOMAIN cs]
    /\ \A i, j \in DOMAIN ds : h[i] = h[j] /\ h[i] # 0 => i = j
    /\ \A j \in DOMAIN ds :
          /\ ds[j].id = None => ds[j].st \in PageStates
          /\ h[j] = 0 => ds[j].id = None /\ ~ds[j].marked
          /\ h[j] # 0 => /\ ds[j].id = cs[h[j]].id
                         /\ ds[j].marked = cs[h[j]].marked

\* All but client k
Removed(cs, k, ds, h) ==
    /\ Kept(cs, ds, h)
    /\ \A j \in DOMAIN ds : h[j] \notin {0, k} /\ ds[j] = cs[h[j]]
    /\ \A i \in DOMAIN cs : i # k => \E j \in DOMAIN ds : h[j] = i

\* Each CGI program has at most one client, and none before it connects.
Separate(cs) ==
    /\ cs \in Seq(AnyClient)
    /\ \A j, k \in DOMAIN cs : cs[j].id = cs[k].id /\ cs[j].id # None => j = k
    /\ \A k \in DOMAIN cs : cs[k].id = None => cs[k].st \in PageStates

Arrived(cs) ==
    /\ backlog \subseteq Cgis
    /\ \A i \in backlog : cgi[i] # "idle"
    /\ \A k \in DOMAIN cs : cs[k].id # None =>
          cs[k].id \notin backlog /\ cgi[cs[k].id] # "idle"

-----------------------------------------------------------------------------
(* Lists of clients                                                        *)

LEMMA MinOf ==
    ASSUME NEW S, S \subseteq Nat, S # {}
    PROVE  Min(S) \in S
<1>1. \E n \in S : \A m \in S : n <= m
  <2>1. PICK n \in S : \A m \in S : ~(<<m, n>> \in OpToRel(<, Nat))
    BY NatLessThanWellFounded, WFMin
  <2>2. \A m \in S : ~(m < n)
    BY <2>1 DEF OpToRel
  <2> QED
    BY <2>2
<1> QED
  BY <1>1 DEF Min

LEMMA ChangedIsKept ==
    ASSUME NEW cs \in Seq(AnyClient), NEW k \in DOMAIN cs, NEW c \in AnyClient,
           c.id = cs[k].id, c.marked = cs[k].marked,
           c.id = None => c.st \in PageStates, Separate(cs)
    PROVE  LET ds == [cs EXCEPT ![k] = c]
           IN  ds \in Seq(AnyClient) /\ \E h : Kept(cs, ds, h)
<1> DEFINE ds == [cs EXCEPT ![k] = c]
           h == [j \in DOMAIN ds |-> j]
<1>1. DOMAIN cs = 1 .. Len(cs) /\ Len(cs) \in Nat
  OBVIOUS
<1>2. ds \in Seq(AnyClient) /\ DOMAIN ds = DOMAIN cs
  BY <1>1, ExceptSeq
<1>3. \A j \in DOMAIN cs : j # 0
  BY <1>1
<1>4. \A j \in DOMAIN cs : ds[j] = IF j = k THEN c ELSE cs[j]
  OBVIOUS
<1>5. Kept(cs, ds, h)
  BY <1>2, <1>3, <1>4 DEF Kept, Separate
<1> QED
  BY <1>2, <1>5

LEMMA Prefix ==
    ASSUME NEW cs \in Seq(AnyClient), NEW p \in AnyClient
    PROVE  LET ds == <<p>> \o cs
           IN  /\ ds \in Seq(AnyClient) /\ DOMAIN ds = 1 .. Len(cs) + 1
               /\ \A j \in 1 .. Len(cs) + 1 :
                     ds[j] = IF j = 1 THEN p ELSE cs[j - 1]
<1> DEFINE ds == <<p>> \o cs
<1>1. Len(cs) \in Nat
  OBVIOUS
<1>2. <<p>> \in Seq(AnyClient) /\ Len(<<p>>) = 1 /\ <<p>>[1] = p
  OBVIOUS
<1>3. /\ ds \in Seq(AnyClient) /\ Len(ds) = 1 + Len(cs)
      /\ \A j \in 1 .. 1 + Len(cs) :
            ds[j] = IF j <= 1 THEN <<p>>[j] ELSE cs[j - 1]
  BY <1>2, ConcatProperties
<1>4. DOMAIN ds = 1 .. Len(ds)
  BY <1>3
<1>5. \A j \in 1 .. 1 + Len(cs) : j <= 1 => j = 1
  BY <1>1
<1> QED
  BY <1>1, <1>2, <1>3, <1>4, <1>5

LEMMA PrefixedIsKept ==
    ASSUME NEW cs \in Seq(AnyClient), NEW p \in AnyClient,
           p.id = None, ~p.marked, p.st \in PageStates,
           NEW k \in DOMAIN cs, NEW c \in AnyClient,
           c.id = cs[k].id, c.marked = cs[k].marked,
           c.id = None => c.st \in PageStates, Separate(cs)
    PROVE  LET ds == <<p>> \o [cs EXCEPT ![k] = c]
           IN  ds \in Seq(AnyClient) /\ \E h : Kept(cs, ds, h)
<1> DEFINE es == [cs EXCEPT ![k] = c]
           ds == <<p>> \o es
           h == [j \in DOMAIN ds |-> j - 1]
<1>1. DOMAIN cs = 1 .. Len(cs) /\ Len(cs) \in Nat
  OBVIOUS
<1>2. es \in Seq(AnyClient) /\ Len(es) = Len(cs)
  BY <1>1, ExceptSeq
<1>4. /\ ds \in Seq(AnyClient) /\ DOMAIN ds = 1 .. Len(cs) + 1
      /\ \A j \in 1 .. Len(cs) + 1 : ds[j] = IF j = 1 THEN p ELSE es[j - 1]
  BY <1>2, Prefix
<1>5. \A j \in 1 .. Len(cs) + 1 : j # 1 => j - 1 \in 1 .. Len(cs) /\ j - 1 # 0
  BY <1>1
<1>6. \A j \in DOMAIN cs : es[j] = IF j = k THEN c ELSE cs[j]
  OBVIOUS
<1>7. h \in [DOMAIN ds -> {0} \cup DOMAIN cs]
  BY <1>1, <1>4
<1>8. \A i, j \in DOMAIN ds : h[i] = h[j] => i = j
  BY <1>1, <1>4
<1>9. ASSUME NEW j \in DOMAIN ds
      PROVE  /\ ds[j].id = None => ds[j].st \in PageStates
             /\ h[j] = 0 => ds[j].id = None /\ ~ds[j].marked
             /\ h[j] # 0 => /\ ds[j].id = cs[h[j]].id
                            /\ ds[j].marked = cs[h[j]].marked
  <2>1. CASE j = 1
    <3>1. h[j] = 0 /\ ds[j] = p
      BY <1>4, <2>1
    <3> QED
      BY <3>1
  <2>2. CASE j # 1
    <3>1. h[j] = j - 1 /\ h[j] \in DOMAIN cs /\ h[j] # 0 /\ ds[j] = es[h[j]]
      BY <1>1, <1>4, <1>5, <2>2, <1>9
    <3> HIDE DEF h, ds, es
    <3> QED
      BY <3>1, <1>6 DEF Separate
  <2> QED
    BY <2>1, <2>2
<1>10. Kept(cs, ds, h)
  <2> HIDE DEF h, ds
  <2> QED
    BY <1>7, <1>8, <1>9 DEF Kept
<1> QED
  BY <1>4, <1>10

LEMMA RemovedIsKept ==
    ASSUME NEW cs \in Seq(AnyClient), NEW k \in DOMAIN cs, Separate(cs),
           NEW ds, ds = RemoveAt(cs, k)
    PROVE  /\ ds \in Seq(AnyClient)
           /\ \E h : Removed(cs, k, ds, h)
<1> DEFINE s == SubSeq(cs, 1, k - 1)
           t == SubSeq(cs, k + 1, Len(cs))
           h == [j \in DOMAIN ds |-> IF j < k THEN j ELSE j + 1]
           n == Len(cs)
<1>1. DOMAIN cs = 1 .. n /\ n \in Nat /\ k \in 1 .. n /\ k \in Int /\ n \in Int
  OBVIOUS
<1>2. \A i \in 1 .. n : cs[i] \in AnyClient
  BY ElementOfSeq
<1>3. /\ s \in Seq(AnyClient) /\ Len(s) = k - 1
      /\ \A i \in 1 .. k - 1 : s[i] = cs[i]
  <2>1. \A i \in 1 .. k - 1 : cs[i] \in AnyClient
    BY <1>1, <1>2
  <2>2. /\ s \in Seq(AnyClient)
        /\ Len(s) = IF 1 <= k - 1 THEN (k - 1) - 1 + 1 ELSE 0
        /\ \A i \in 1 .. (k - 1) - 1 + 1 : s[i] = cs[1 + i - 1]
    BY <1>1, <2>1, SubSeqProperties
  <2> QED
    BY <1>1, <2>2
<1>4. /\ t \in Seq(AnyClient) /\ Len(t) = n - k
      /\ \A i \in 1 .. n - k : t[i] = cs[k + i]
  <2>1. \A i \in k + 1 .. n : cs[i] \in AnyClient
    BY <1>1, <1>2
  <2>2. /\ t \in Seq(AnyClient)
        /\ Len(t) = IF k + 1 <= n THEN n - (k + 1) + 1 ELSE 0
        /\ \A i \in 1 .. n - (k + 1) + 1 : t[i] = cs[(k + 1) + i - 1]
    BY <1>1, <2>1, SubSeqProperties
  <2> QED
    BY <1>1, <2>2
<1>5. /\ ds \in Seq(AnyClient) /\ DOMAIN ds = 1 .. n - 1
      /\ \A j \in 1 .. n - 1 : ds[j] = IF j < k THEN cs[j] ELSE cs[j + 1]
  <2>1. ds = s \o t
    BY DEF RemoveAt
  <2>2. /\ s \o t \in Seq(AnyClient) /\ Len(s \o t) = Len(s) + Len(t)
        /\ \A j \in 1 .. Len(s) + Len(t) :
              (s \o t)[j] = IF j <= Len(s) THEN s[j] ELSE t[j - Len(s)]
    BY <1>3, <1>4, ConcatProperties
  <2>3. Len(s) + Len(t) = n - 1
    BY <1>1, <1>3, <1>4
  <2>4. DOMAIN (s \o t) = 1 .. n - 1
    <3> HIDE DEF s, t, n
    <3> QED
      BY <2>2, <2>3
  <2>5. ASSUME NEW j \in 1 .. n - 1
        PROVE  (s \o t)[j] = IF j < k THEN cs[j] ELSE cs[j + 1]
    <3>1. CASE j < k
      <4>1. j \in 1 .. k - 1 /\ j <= Len(s)
        BY <1>1, <1>3, <3>1
      <4> QED
        BY <1>3, <2>2, <2>3, <3>1, <4>1
    <3>2. CASE ~(j < k)
      <4>1. j - (k - 1) \in 1 .. n - k /\ ~(j <= Len(s)) /\ k + (j - (k - 1)) = j + 1
        BY <1>1, <1>3, <3>2
      <4>2. (s \o t)[j] = t[j - (k - 1)]
        BY <1>3, <2>2, <2>3, <4>1
      <4> QED
        BY <1>4, <3>2, <4>1, <4>2
    <3> QED
      BY <3>1, <3>2
  <2> QED
    BY <2>1, <2>2, <2>4, <2>5
<1>6. /\ h \in [DOMAIN ds -> DOMAIN cs]
      /\ \A j \in DOMAIN ds : h[j] \notin {0, k} /\ ds[j] = cs[h[j]]
      /\ \A i, j \in DOMAIN ds : h[i] = h[j] => i = j
  <2>1. ASSUME NEW j \in 1 .. n - 1
        PROVE  /\ (IF j < k THEN j ELSE j + 1) \in 1 .. n
               /\ (IF j < k THEN j ELSE j + 1) \notin {0, k}
    BY <1>1
  <2>2. ASSUME NEW i \in 1 .. n - 1, NEW j \in 1 .. n - 1,
               (IF i < k THEN i ELSE i + 1) = (IF j < k THEN j ELSE j + 1)
        PROVE  i = j
    BY <1>1, <2>2
  <2> QED
    BY <1>1, <1>5, <2>1, <2>2
<1>7. Kept(cs, ds, h)
  <2> HIDE DEF h
  <2> QED
    BY <1>6 DEF Kept, Separate
<1>8. ASSUME NEW i \in DOMAIN cs, i # k PROVE \E j \in DOMAIN ds : h[j] = i
  <2>1. CASE i < k
    <3>1. i \in 1 .. n - 1
      BY <1>1, <1>8, <2>1
    <3> QED
      BY <1>5, <2>1, <3>1
  <2>2. CASE ~(i < k)
    <3>1. i - 1 \in 1 .. n - 1 /\ ~(i - 1 < k) /\ (i - 1) + 1 = i
      BY <1>1, <1>8, <2>2
    <3> QED
      BY <1>5, <3>1
  <2> QED
    BY <2>1, <2>2
<1> HIDE DEF h
<1> QED
  BY <1>5, <1>6, <1>7, <1>8 DEF Removed
-----------------------------------------------------------------------------
(* The first client of a kind                                              *)

LEMMA ReadyIs ==
    ASSUME clients \in Seq(AnyClient), Ready # 0
    PROVE  Ready \in DOMAIN clients
<1> DEFINE I == {i \in 1 .. Len(clients) :
                    \/ clients[i].st \in Reading /\ clients[i].fd \in rset
                    \/ clients[i].st \in Writing /\ clients[i].fd \in wset}
<1>1. Ready = IF I # {} THEN Min(I) ELSE 0
  BY DEF Ready, First, SelectInSeq
<1>2. I # {} => Min(I) \in I
  <2>1. I \subseteq Nat
    OBVIOUS
  <2> HIDE DEF I
  <2> QED
    BY <2>1, MinOf
<1> QED
  BY <1>1, <1>2

LEMMA AskingIs ==
    ASSUME clients \in Seq(AnyClient)
    PROVE  /\ Asking # 0 => Asking \in DOMAIN clients /\ clients[Asking].st = "ready"
           /\ Asking = 0 => \A k \in DOMAIN clients : clients[k].st # "ready"
<1> DEFINE I == {i \in 1 .. Len(clients) : clients[i].st = "ready"}
<1>1. Asking = IF I # {} THEN Min(I) ELSE 0
  BY DEF Asking, First, SelectInSeq
<1>2. I # {} => Min(I) \in I
  <2>1. I \subseteq Nat
    OBVIOUS
  <2> HIDE DEF I
  <2> QED
    BY <2>1, MinOf
<1>3. I = {} => \A k \in DOMAIN clients : clients[k].st # "ready"
  OBVIOUS
<1>4. \A i \in I : i # 0
  OBVIOUS
<1> QED
  BY <1>1, <1>2, <1>3, <1>4

LEMMA LeavingIs ==
    ASSUME clients \in Seq(AnyClient)
    PROVE  /\ Leaving # 0 =>
                Leaving \in DOMAIN clients /\ clients[Leaving].st = "disconnect"
           /\ Leaving = 0 => \A k \in DOMAIN clients : clients[k].st # "disconnect"
<1> DEFINE I == {i \in 1 .. Len(clients) : clients[i].st = "disconnect"}
<1>1. Leaving = IF I # {} THEN Min(I) ELSE 0
  BY DEF Leaving, First, SelectInSeq
<1>2. I # {} => Min(I) \in I
  <2>1. I \subseteq Nat
    OBVIOUS
  <2> HIDE DEF I
  <2> QED
    BY <2>1, MinOf
<1>3. I = {} => \A k \in DOMAIN clients : clients[k].st # "disconnect"
  OBVIOUS
<1>4. \A i \in I : i # 0
  OBVIOUS
<1> QED
  BY <1>1, <1>2, <1>3, <1>4

LEMMA ByIdIs ==
    ASSUME clients \in Seq(AnyClient), NEW i
    PROVE  /\ ById(i) # 0 => ById(i) \in DOMAIN clients /\ clients[ById(i)].id = i
           /\ ById(i) = 0 => \A k \in DOMAIN clients : clients[k].id # i
<1> DEFINE I == {k \in 1 .. Len(clients) : clients[k].id = i}
<1>1. ById(i) = IF I # {} THEN Min(I) ELSE 0
  BY DEF ById, First, SelectInSeq
<1>2. I # {} => Min(I) \in I
  <2>1. I \subseteq Nat
    OBVIOUS
  <2> HIDE DEF I
  <2> QED
    BY <2>1, MinOf
<1> QED
  BY <1>1, <1>2

-----------------------------------------------------------------------------
(* Clients and imports                                                     *)

Tables == [Fds -> Objects \cup {None}]

Known ==
    /\ table \in Tables /\ DOMAIN cgi = Cgis
    /\ Separate(clients) /\ Arrived(clients)
    /\ pending \in Cgis \cup {None}
    /\ pending # None => pending \notin backlog /\ cgi[pending] # "idle"
    /\ ImportOfClient

USE ConnectionsAssumption

LEMMA TablesKept ==
    ASSUME NEW t \in Tables
    PROVE  /\ \A o \in Objects : Opened(t, o) \in Tables
           /\ \A fs : Closed(t, fs) \in Tables
           /\ Lowest(t) \in AnyFd
BY DEF Tables, Opened, Closed, AnyFd

LEMMA ObjectsOf ==
    ASSUME NEW i \in Cgis
    PROVE  Conn(i) \in Objects /\ Out(i) \in Objects /\ Wait(i) \in Objects
           /\ UserList \in Objects
BY DEF Objects

LEMMA SeparateKept ==
    ASSUME NEW cs, Separate(cs), NEW ds \in Seq(AnyClient), NEW h,
           Kept(cs, ds, h)
    PROVE  Separate(ds) /\ (Arrived(cs) => Arrived(ds))
<1>1. Separate(ds)
  <2>1. ASSUME NEW j \in DOMAIN ds, NEW k \in DOMAIN ds,
               ds[j].id = ds[k].id, ds[j].id # None
        PROVE  j = k
    <3>1. /\ h[j] # 0 /\ h[k] # 0
          /\ h[j] \in DOMAIN cs /\ h[k] \in DOMAIN cs
          /\ cs[h[j]].id = ds[j].id /\ cs[h[k]].id = ds[k].id
      BY <2>1 DEF Kept
    <3>2. h[j] = h[k]
      BY <2>1, <3>1 DEF Separate
    <3> QED
      BY <3>1, <3>2 DEF Kept
  <2> QED
    BY <2>1 DEF Separate, Kept
<1>2. ASSUME Arrived(cs), NEW k \in DOMAIN ds, ds[k].id # None
      PROVE  ds[k].id \notin backlog /\ cgi[ds[k].id] # "idle"
  <2>1. h[k] # 0 /\ h[k] \in DOMAIN cs /\ cs[h[k]].id = ds[k].id
    BY <1>2 DEF Kept
  <2> QED
    BY <1>2, <2>1 DEF Arrived
<1> QED
  BY <1>1, <1>2 DEF Arrived

\* A list made from the one before, when the import stays.
LEMMA KeptKnown ==
    ASSUME Known, clients' \in Seq(AnyClient), \E h : Kept(clients, clients', h),
           table' \in Tables, UNCHANGED <<pending, backlog, cgi>>
    PROVE  Known'
<1>1. PICK h : Kept(clients, clients', h)
  OBVIOUS
<1>2. Separate(clients') /\ Arrived(clients')
  BY <1>1, SeparateKept DEF Known
<1>3. Arrived(clients)'
  BY <1>2 DEF Arrived
<1>4. ASSUME NEW k \in DOMAIN clients'
      PROVE  clients'[k].marked
                <=> clients'[k].id # None /\ clients'[k].id = pending
  <2>1. CASE h[k] = 0
    BY <1>1, <2>1 DEF Kept
  <2>2. CASE h[k] # 0
    <3>1. /\ h[k] \in DOMAIN clients /\ clients[h[k]].id = clients'[k].id
          /\ clients[h[k]].marked = clients'[k].marked
      BY <1>1, <2>2 DEF Kept
    <3> QED
      BY <3>1 DEF Known, ImportOfClient
  <2> QED
    BY <2>1, <2>2
<1> QED
  BY <1>2, <1>3, <1>4 DEF Known, ImportOfClient, Separate

LEMMA ClientIs ==
    ASSUME Known, NEW k \in DOMAIN clients
    PROVE  /\ clients \in Seq(AnyClient) /\ clients[k] \in AnyClient
           /\ clients[k].id \in Cgis \cup {None}
           /\ clients[k].st \notin PageStates => clients[k].id \in Cgis
<1>1. clients \in Seq(AnyClient)
  BY DEF Known, Separate
<1>2. clients[k] \in AnyClient
  BY <1>1, ElementOfSeq
<1> QED
  BY <1>1, <1>2 DEF AnyClient, Known, Separate

LEMMA SameIds ==
    ASSUME NEW cs, Separate(cs), NEW ds \in Seq(AnyClient),
           DOMAIN ds = DOMAIN cs,
           \A j \in DOMAIN ds : ds[j].id = cs[j].id,
           \A j \in DOMAIN ds : ds[j].id = None => ds[j].st \in PageStates
    PROVE  Separate(ds) /\ (Arrived(cs) => Arrived(ds))
<1>1. ASSUME NEW j \in DOMAIN ds, NEW k \in DOMAIN ds,
             ds[j].id = ds[k].id, ds[j].id # None
      PROVE  j = k
  <2>1. /\ j \in DOMAIN cs /\ k \in DOMAIN cs
        /\ cs[j].id = ds[j].id /\ cs[k].id = ds[k].id
    BY <1>1
  <2> QED
    BY <1>1, <2>1 DEF Separate
<1>2. Separate(ds)
  BY <1>1 DEF Separate
<1>3. ASSUME Arrived(cs), NEW k \in DOMAIN ds, ds[k].id # None
      PROVE  ds[k].id \notin backlog /\ cgi[ds[k].id] # "idle"
  <2>1. k \in DOMAIN cs /\ ds[k].id = cs[k].id
    BY <1>3
  <2> QED
    BY <1>3, <2>1 DEF Arrived
<1> QED
  BY <1>2, <1>3 DEF Arrived

LEMMA Unmarks ==
    ASSUME NEW cs, Separate(cs)
    PROVE  /\ Separate(Unmarked(cs)) /\ (Arrived(cs) => Arrived(Unmarked(cs)))
           /\ DOMAIN Unmarked(cs) = DOMAIN cs
           /\ \A j \in DOMAIN cs :
                 Unmarked(cs)[j].marked <=> cs[j].marked /\ cs[j].id # pending
<1>1. cs \in Seq(AnyClient) /\ DOMAIN cs = 1 .. Len(cs) /\ Len(cs) \in Nat
  BY DEF Separate
<1>2. \A j \in DOMAIN cs : cs[j] \in AnyClient
  BY <1>1, ElementOfSeq
<1>3. ASSUME NEW j \in DOMAIN cs
      PROVE  /\ Unmarked(cs)[j] \in AnyClient
             /\ Unmarked(cs)[j].id = cs[j].id /\ Unmarked(cs)[j].st = cs[j].st
             /\ Unmarked(cs)[j].marked <=> cs[j].marked /\ cs[j].id # pending
  BY <1>2 DEF Unmarked, AnyClient
<1>4. DOMAIN Unmarked(cs) = DOMAIN cs
  BY DEF Unmarked
<1>5. Unmarked(cs) \in [1 .. Len(cs) -> AnyClient]
  BY <1>1, <1>3 DEF Unmarked
<1>6. Unmarked(cs) \in Seq(AnyClient)
  BY <1>1, <1>5, SeqDef
<1> QED
  BY <1>3, <1>4, <1>6, SameIds DEF Separate

-----------------------------------------------------------------------------
(* Steps that keep what is known                                           *)

LEMMA ChangeKeeps ==
    ASSUME Known, NEW k \in DOMAIN clients, NEW c \in AnyClient,
           c.id = clients[k].id, c.marked = clients[k].marked,
           c.id = None => c.st \in PageStates,
           clients' = [clients EXCEPT ![k] = c], table' \in Tables,
           UNCHANGED <<pending, backlog, cgi>>
    PROVE  Known'
<1>1. clients \in Seq(AnyClient) /\ Separate(clients)
  BY DEF Known, Separate
<1>2. clients' \in Seq(AnyClient) /\ \E h : Kept(clients, clients', h)
  BY <1>1, ChangedIsKept
<1> QED
  BY <1>2, KeptKnown

\* The reply to client k, and its page before it.
LEMMA RepliedIs ==
    ASSUME Known, NEW k \in DOMAIN clients, clients[k].id # None,
           NEW r \in {"ok", "error"}
    PROVE  /\ Bare(k, r) \in Seq(AnyClient)
           /\ \E h : Kept(clients, Bare(k, r), h)
           /\ PageOf(k) \in Seq(AnyClient)
           /\ \E h : Kept(clients, PageOf(k), h)
<1> DEFINE c(x) == Replied(WithoutFds(clients[k]), x)
           p == [NewClient(None, clients[k].out) EXCEPT
                    !.wait = clients[k].wait, !.st = "writeclose",
                    !.text = clients[k].id]
<1>1. clients[k] \in AnyClient /\ clients \in Seq(AnyClient) /\ Separate(clients)
  BY ClientIs DEF Known
<1>2. 0 \in AnyFd
  BY DEF AnyFd
<1>3. ASSUME NEW x \in {"ok", "error"}
      PROVE  /\ c(x) \in AnyClient /\ c(x).id = clients[k].id
             /\ c(x).marked = clients[k].marked
  BY <1>1, <1>2 DEF AnyClient, Replied, WithoutFds, ClientStates, Writing
<1>4. /\ p \in AnyClient /\ p.id = None /\ ~p.marked /\ p.st \in PageStates
  BY <1>1, <1>2 DEF AnyClient, NewClient, ClientStates, Writing, PageStates
<1>5. Bare(k, r) = [clients EXCEPT ![k] = c(r)]
  BY DEF Bare
<1>6. PageOf(k) = <<p>> \o [clients EXCEPT ![k] = c("ok")]
  BY DEF PageOf
<1> HIDE DEF c, p
<1>7. /\ Bare(k, r) \in Seq(AnyClient)
      /\ \E h : Kept(clients, Bare(k, r), h)
  <2>1. PICK d \in AnyClient :
           d = c(r) /\ d.id = clients[k].id /\ d.marked = clients[k].marked
    BY <1>3
  <2>2. LET ds == [clients EXCEPT ![k] = d]
        IN  ds \in Seq(AnyClient) /\ \E h : Kept(clients, ds, h)
    BY <1>1, <2>1, ChangedIsKept
  <2> QED
    BY <1>5, <2>1, <2>2
<1>8. /\ PageOf(k) \in Seq(AnyClient)
      /\ \E h : Kept(clients, PageOf(k), h)
  <2>1. PICK d \in AnyClient :
           d = c("ok") /\ d.id = clients[k].id /\ d.marked = clients[k].marked
    BY <1>3
  <2>2. LET ds == <<p>> \o [clients EXCEPT ![k] = d]
        IN  ds \in Seq(AnyClient) /\ \E h : Kept(clients, ds, h)
    BY <1>1, <1>4, <2>1, PrefixedIsKept
  <2> QED
    BY <1>6, <2>1, <2>2
<1> QED
  BY <1>7, <1>8

LEMMA MoveKeeps ==
    ASSUME Known, NEW k \in DOMAIN clients, NEW st \in ClientStates,
           clients[k].id = None => st \in PageStates,
           clients' = [clients EXCEPT ![k].st = st], table' \in Tables,
           UNCHANGED <<pending, backlog, cgi>>
    PROVE  Known'
<1> DEFINE c == [clients[k] EXCEPT !.st = st]
<1>1. c \in AnyClient /\ c.id = clients[k].id /\ c.marked = clients[k].marked
      /\ c.st = st
  BY ClientIs DEF AnyClient
<1>2. clients' = [clients EXCEPT ![k] = c]
  OBVIOUS
<1> HIDE DEF c
<1>3. PICK d \in AnyClient : d = c
  BY <1>1
<1> QED
  BY <1>1, <1>2, <1>3, ChangeKeeps

LEMMA InputKeeps ==
    ASSUME Known, NEW k \in DOMAIN clients, NEW i \in Cgis, InOut(clients[k], i)
    PROVE  Known'
<1> DEFINE r == Ready
           p == clients[k]
<1>1. r \in DOMAIN clients /\ p = clients[r]
  BY ReadyIs DEF InOut, Read, ReadNothing, WriteReply, WritePage, Io, Known,
     Separate
<1>2. /\ p \in AnyClient /\ p.id \in Cgis \cup {None}
      /\ p.st \notin PageStates => p.id # None
  BY ClientIs, ConnectionsAssumption
<1>3. UNCHANGED <<pending, backlog, cgi>>
  BY DEF InOut, Read, ReadNothing, WriteReply, WritePage, program, contest
<1>4. table \in Tables
  BY DEF Known
<1>5. ASSUME NEW st \in ClientStates, Moves(st), p.id = None => st \in PageStates,
             table' = table
      PROVE  Known'
  BY <1>1, <1>3, <1>4, <1>5, MoveKeeps DEF Moves
<1>6. CASE Read(p, i)
  <2>1. p.id # None
    BY <1>2, <1>6 DEF Read, Reading, PageStates
  <2>2. CASE Moves("packet") /\ table' = table
    BY <1>5, <2>1, <2>2 DEF ClientStates, Reading
  <2>3. CASE Moves("ready") /\ table' = table
    BY <1>5, <2>1, <2>3 DEF ClientStates, Reading
  <2>4. CASE LET t1 == Opened(table, Out(i))
             IN  /\ table' = Opened(t1, Wait(i))
                 /\ clients' = [clients EXCEPT ![r] =
                        [p EXCEPT !.st = "packet", !.out = Lowest(table),
                                  !.wait = Lowest(t1)]]
    <3> DEFINE t1 == Opened(table, Out(i))
               c == [p EXCEPT !.st = "packet", !.out = Lowest(table),
                              !.wait = Lowest(t1)]
    <3>1. t1 \in Tables /\ table' \in Tables
      BY <1>4, <2>4, TablesKept, ObjectsOf
    <3>2. Lowest(table) \in AnyFd /\ Lowest(t1) \in AnyFd
      BY <1>4, <3>1, TablesKept, ObjectsOf
    <3>3. c \in AnyClient /\ c.id = p.id /\ c.marked = p.marked
      <4> HIDE DEF t1
      <4> QED
        BY <1>2, <3>2 DEF AnyClient, ClientStates, Reading
    <3>4. PICK d \in AnyClient : d = c
      BY <3>3
    <3>5. clients' = [clients EXCEPT ![r] = c]
      BY <2>4
    <3> HIDE DEF c
    <3> QED
      BY <1>1, <1>3, <2>1, <3>1, <3>3, <3>4, <3>5, ChangeKeeps
  <2> QED
    BY <1>6, <2>2, <2>3, <2>4 DEF Read
<1>7. CASE ReadNothing(p, i)
  <2>1. UNCHANGED table
    BY <1>7 DEF ReadNothing
  <2>2. CASE Moves("disconnect")
    BY <1>5, <2>1, <2>2 DEF ClientStates, PageStates
  <2>3. CASE UNCHANGED clients
    BY <1>3, <2>1, <2>3 DEF Known, Arrived, ImportOfClient, Separate
  <2> QED
    BY <1>7, <2>2, <2>3 DEF ReadNothing
<1>8. CASE WriteReply(p, i)
  <2>1. UNCHANGED table /\ p.id # None
    BY <1>2, <1>8 DEF WriteReply, PageStates
  <2> QED
    BY <1>5, <1>8, <2>1 DEF WriteReply, ClientStates, Reading, PageStates
<1>9. CASE WritePage(p, i)
  BY <1>5, <1>9 DEF WritePage, ClientStates, PageStates
<1> QED
  BY <1>6, <1>7, <1>8, <1>9 DEF InOut

LEMMA UnchangedKeeps ==
    ASSUME Known, clients' = clients, table' \in Tables,
           UNCHANGED <<pending, backlog, cgi>>
    PROVE  Known'
BY DEF Known, Arrived, ImportOfClient, Separate

LEMMA ReplyKeeps ==
    ASSUME Known, NEW k \in DOMAIN clients, clients[k].id # None,
           \/ clients' = PageOf(k)
           \/ clients' = Bare(k, "ok")
           \/ clients' = Bare(k, "error"),
           table' \in Tables, UNCHANGED <<pending, backlog, cgi>>
    PROVE  Known'
<1>1. clients' \in Seq(AnyClient) /\ \E h : Kept(clients, clients', h)
  BY RepliedIs
<1> QED
  BY <1>1, KeptKnown

LEMMA MarkKeeps ==
    ASSUME Known, NEW a \in DOMAIN clients, clients[a].id \in Cgis, pending = None,
           NEW c \in AnyClient, c.id = clients[a].id, c.marked = TRUE,
           clients' = [clients EXCEPT ![a] = c],
           pending' = clients[a].id, table' \in Tables, UNCHANGED <<backlog, cgi>>
    PROVE  Known'
<1>1. clients \in Seq(AnyClient) /\ Separate(clients) /\ Arrived(clients)
  BY DEF Known, Separate
<1>2. a \in 1 .. Len(clients)
  BY <1>1
<1>3. clients' \in Seq(AnyClient) /\ Len(clients') = Len(clients)
  BY <1>1, <1>2, ExceptSeq
<1>4. DOMAIN clients' = DOMAIN clients
  OBVIOUS
<1>5. \A j \in DOMAIN clients : clients'[j] = IF j = a THEN c ELSE clients[j]
  OBVIOUS
<1>6. \A j \in DOMAIN clients' : clients'[j].id = clients[j].id
  BY <1>4, <1>5
<1>7. \A j \in DOMAIN clients' : clients'[j].id = None => clients'[j].st \in PageStates
  BY <1>1, <1>4, <1>5, ConnectionsAssumption DEF Separate
<1>8. PICK ds : ds = clients'
  OBVIOUS
<1>9. Separate(ds) /\ Arrived(ds)
  <2>1. /\ ds \in Seq(AnyClient) /\ DOMAIN ds = DOMAIN clients
        /\ \A j \in DOMAIN ds : ds[j].id = clients[j].id
        /\ \A j \in DOMAIN ds : ds[j].id = None => ds[j].st \in PageStates
    BY <1>3, <1>4, <1>6, <1>7, <1>8
  <2> QED
    BY <1>1, <2>1, SameIds
<1>10. ASSUME NEW j \in DOMAIN clients'
       PROVE  clients'[j].marked
                 <=> clients'[j].id # None /\ clients'[j].id = clients[a].id
  <2>1. CASE j = a
    <3>1. clients'[j] = c
      BY <1>4, <1>5, <1>10, <2>1
    <3> QED
      BY <3>1, ConnectionsAssumption
  <2>2. CASE j # a
    <3>1. clients'[j] = clients[j] /\ j \in DOMAIN clients
      BY <1>4, <1>5, <1>10, <2>2
    <3>2. ~clients[j].marked
      BY <3>1 DEF Known, ImportOfClient
    <3>3. clients[j].id # None => clients[j].id # clients[a].id
      BY <1>1, <2>2, <3>1 DEF Separate
    <3> QED
      BY <3>1, <3>2, <3>3
  <2> QED
    BY <2>1, <2>2
<1>11. Separate(clients') /\ Arrived(clients)'
  BY <1>8, <1>9 DEF Arrived
<1>12. pending' \in Cgis /\ pending' \notin backlog' /\ cgi'[pending'] # "idle"
  BY <1>1, ConnectionsAssumption DEF Arrived
<1>13. DOMAIN cgi' = Cgis
  BY DEF Known
<1> QED
  BY <1>10, <1>11, <1>12, <1>13 DEF Known, ImportOfClient, Separate

LEMMA WaitKeeps ==
    ASSUME Known, NEW a \in DOMAIN clients, clients[a].id \in Cgis, pending = None,
           clients' = [clients EXCEPT ![a].st = "packet", ![a].marked = TRUE],
           pending' = clients[a].id, table' \in Tables, UNCHANGED <<backlog, cgi>>
    PROVE  Known'
<1> DEFINE c == [clients[a] EXCEPT !.st = "packet", !.marked = TRUE]
<1>1. c \in AnyClient /\ c.id = clients[a].id /\ c.marked = TRUE
  BY ClientIs DEF AnyClient, ClientStates, Reading
<1>2. clients' = [clients EXCEPT ![a] = c]
  OBVIOUS
<1> HIDE DEF c
<1>3. PICK d \in AnyClient : d = c
  BY <1>1
<1> QED
  BY <1>1, <1>2, <1>3, MarkKeeps

LEMMA CommandKeeps ==
    ASSUME Known, NEW k \in DOMAIN clients, Command(clients[k])
    PROVE  Known'
<1> DEFINE p == clients[k]
<1>1. PICK part \in {"pass", "request"} : Handle(p, part)
  BY DEF Command, PassFd, Submit, TestSuspend, TestResume, Suspension, Refuse,
     ImportNow, ImportRefused, ImportWaits, Request
<1>2. /\ Asking \in DOMAIN clients /\ p = clients[Asking] /\ p.st = "ready"
      /\ UNCHANGED <<backlog, cgi>>
  BY <1>1, AskingIs DEF Handle, Known, Separate, program
<1>3. p.id \in Cgis /\ p.id # None
  BY <1>2, ClientIs, ConnectionsAssumption DEF PageStates
<1>4. table \in Tables /\ TableNow \in Tables
  BY TablesKept, ObjectsOf DEF Known, TableNow, Objects
<1>5. ReplyPage => clients' = PageOf(Asking) /\ table' \in Tables
  BY <1>4 DEF ReplyPage
<1>6. ASSUME NEW x, ReplyBare(x)
      PROVE  clients' = Bare(Asking, x) /\ table' \in Tables
  BY <1>4, <1>6, TablesKept DEF ReplyBare
<1>7. CASE PassFd(p)
  <2>1. /\ clients' = [clients EXCEPT ![Asking].st = "fds"] /\ table' \in Tables
        /\ pending' = pending
    BY <1>4, <1>7 DEF PassFd, contest
  <2> QED
    BY <1>2, <1>3, <2>1, MoveKeeps DEF ClientStates, Reading
<1>8. CASE Submit(p)
  BY <1>2, <1>3, <1>5, <1>8, ReplyKeeps DEF Submit
<1>9. ASSUME NEW b, Suspension(p, b) PROVE Known'
  BY <1>2, <1>3, <1>6, <1>9, ReplyKeeps DEF Suspension
<1>10. ASSUME NEW r \in Requests, Refuse(p, r) PROVE Known'
  BY <1>2, <1>3, <1>6, <1>10, ReplyKeeps DEF Refuse, contest
<1>11. CASE ImportNow(p)
  BY <1>2, <1>3, <1>5, <1>6, <1>11, ReplyKeeps DEF ImportNow
<1>12. CASE ImportRefused(p)
  BY <1>2, <1>3, <1>6, <1>12, ReplyKeeps DEF ImportRefused, contest
<1>13. CASE ImportWaits(p)
  BY <1>2, <1>3, <1>4, <1>13, WaitKeeps DEF ImportWaits, MayWait
<1> QED
  BY <1>7, <1>8, <1>9, <1>10, <1>11, <1>12, <1>13
     DEF Command, TestSuspend, TestResume

\* A client with the mark is the one of the import that waits.
LEMMA LeaverIs ==
    ASSUME Known, Leaving # 0, NEW k, k = Leaving, Disconnect(k)
    PROVE  /\ k \in DOMAIN clients
           /\ clients[k].marked => pending # None
           /\ UNCHANGED pending => Known'
           /\ clients[k].marked /\ pending' = None => Known'
<1>1. clients \in Seq(AnyClient) /\ k \in DOMAIN clients /\ Separate(clients)
  BY LeavingIs DEF Known, Separate
<1>2. clients[k].marked => clients[k].id # None /\ clients[k].id = pending
  BY <1>1 DEF Known, ImportOfClient
<1>3. clients' = RemoveAt(clients, k) /\ table' \in Tables
      /\ UNCHANGED <<backlog, cgi>>
  BY TablesKept DEF Disconnect, Known, program
<1>4. /\ clients' \in Seq(AnyClient)
      /\ \E h : Removed(clients, k, clients', h)
  BY <1>1, <1>3, RemovedIsKept
<1>5. UNCHANGED pending => Known'
  BY <1>3, <1>4, KeptKnown DEF Removed
<1>6. ASSUME clients[k].marked, pending' = None PROVE Known'
  <2>1. PICK h : /\ Kept(clients, clients', h)
                 /\ \A j \in DOMAIN clients' : h[j] \notin {0, k}
    BY <1>4 DEF Removed
  <2>2. Separate(clients') /\ Arrived(clients')
    BY <1>4, <2>1, SeparateKept DEF Known
  <2>3. ASSUME NEW j \in DOMAIN clients' PROVE ~clients'[j].marked
    <3>1. /\ h[j] \in DOMAIN clients /\ h[j] # 0 /\ h[j] # k
          /\ clients'[j].marked = clients[h[j]].marked
      BY <2>1, <2>3 DEF Kept
    <3>2. clients[h[j]].marked => clients[h[j]].id # None /\ clients[h[j]].id = pending
      BY <3>1 DEF Known, ImportOfClient
    <3> QED
      BY <1>1, <1>2, <1>6, <3>1, <3>2 DEF Separate
  <2> QED
    BY <1>3, <1>6, <2>2, <2>3 DEF Known, ImportOfClient, Arrived
<1> QED
  BY <1>1, <1>2, <1>5, <1>6

LEMMA LoopKeeps ==
    ASSUME Known, LoopImport \/ LoopAbandon
    PROVE  Known'
<1>1. /\ pending # None /\ pending' = None /\ pending \in Cgis
      /\ UNCHANGED <<backlog, cgi>>
  BY DEF LoopImport, LoopAbandon, LoopEnd, program, Known
<1>2. clients \in Seq(AnyClient) /\ table \in Tables
      /\ Separate(clients) /\ Arrived(clients)
  BY DEF Known, Separate
<1>3. CASE LoopAbandon
  <2>1. \A k \in DOMAIN clients : ~clients[k].marked
    BY <1>2, <1>3, ByIdIs DEF LoopAbandon, Known, ImportOfClient
  <2> QED
    BY <1>1, <1>2, <1>3, <2>1
       DEF LoopAbandon, Known, ImportOfClient, Arrived, Separate
<1>4. CASE LoopImport
  <2> DEFINE k == ById(pending)
  <2>1. k \in DOMAIN clients /\ clients[k].id # None
    BY <1>1, <1>2, <1>4, ByIdIs DEF LoopImport
  <2>2. PICK cs : /\ cs = PageOf(k) \/ cs = Bare(k, "ok")
                  /\ clients' = Unmarked(cs)
    BY <1>4 DEF LoopImport
  <2>3. table' \in Tables
    BY <1>2, <1>4, TablesKept DEF LoopImport
  <2>4. cs \in Seq(AnyClient) /\ \E h : Kept(clients, cs, h)
    BY <2>1, <2>2, RepliedIs
  <2>5. PICK h : Kept(clients, cs, h)
    BY <2>4
  <2>6. Separate(cs) /\ Arrived(cs)
    BY <1>2, <2>4, <2>5, SeparateKept
  <2>7. Separate(clients') /\ Arrived(clients')
    BY <2>2, <2>6, Unmarks
  <2>8. ASSUME NEW j \in DOMAIN clients' PROVE ~clients'[j].marked
    <3>1. /\ j \in DOMAIN cs
          /\ clients'[j].marked <=> cs[j].marked /\ cs[j].id # pending
      BY <2>2, <2>6, <2>8, Unmarks
    <3>2. CASE h[j] = 0
      BY <2>5, <3>1, <3>2 DEF Kept
    <3>3. CASE h[j] # 0
      <4>1. /\ h[j] \in DOMAIN clients /\ cs[j].id = clients[h[j]].id
            /\ cs[j].marked = clients[h[j]].marked
        BY <2>5, <3>1, <3>3 DEF Kept
      <4> QED
        BY <3>1, <4>1 DEF Known, ImportOfClient
    <3> QED
      BY <3>2, <3>3
  <2> QED
    BY <1>1, <2>3, <2>7, <2>8 DEF Known, ImportOfClient, Arrived
<1> QED
  BY <1>3, <1>4

LEMMA SelectKeeps ==
    ASSUME Known, Select
    PROVE  Known'
<1> DEFINE t == Closed(table, Closing)
<1>1. t \in Tables /\ UNCHANGED <<pending, cgi>>
  BY TablesKept DEF Known, Select, contest
<1>2. clients \in Seq(AnyClient) /\ Separate(clients) /\ Arrived(clients)
  BY DEF Known, Separate
<1>3. CASE table' = t /\ UNCHANGED <<backlog, clients>>
  BY <1>1, <1>3, UnchangedKeeps
<1>4. ASSUME NEW i \in backlog, backlog' = backlog \ {i},
             clients' = <<NewClient(i, Lowest(t))>> \o clients,
             table' = Opened(t, Conn(i))
      PROVE  Known'
  <2> DEFINE p == NewClient(i, Lowest(t))
  <2>1. i \in Cgis /\ i # None /\ table' \in Tables /\ Lowest(t) \in AnyFd
    BY <1>1, <1>2, <1>4, TablesKept, ObjectsOf, ConnectionsAssumption DEF Arrived
  <2>2. p \in AnyClient /\ p.id = i /\ p.marked = FALSE
    <3>1. 0 \in AnyFd
      BY DEF AnyFd
    <3> HIDE DEF t
    <3> QED
      BY <2>1, <3>1 DEF AnyClient, NewClient, ClientStates, Reading
  <2>3. clients' = <<p>> \o clients
    BY <1>4
  <2> HIDE DEF p
  <2>4. PICK q \in AnyClient : q = p
    BY <2>2
  <2>5. /\ clients' \in Seq(AnyClient) /\ DOMAIN clients' = 1 .. Len(clients) + 1
        /\ \A j \in 1 .. Len(clients) + 1 :
              clients'[j] = IF j = 1 THEN p ELSE clients[j - 1]
    BY <1>2, <2>3, <2>4, Prefix
  <2>6. Len(clients) \in Nat /\ DOMAIN clients = 1 .. Len(clients)
    BY <1>2
  <2>7. ASSUME NEW j \in DOMAIN clients', j # 1
        PROVE  j - 1 \in DOMAIN clients /\ clients'[j] = clients[j - 1]
    BY <2>5, <2>6, <2>7
  <2>8. ASSUME NEW j \in DOMAIN clients', j = 1
        PROVE  clients'[j] = p
    BY <2>5, <2>6, <2>8
  <2>9. ASSUME NEW j \in DOMAIN clients', j # 1
        PROVE  clients'[j].id # i
    BY <1>2, <1>4, <2>1, <2>7, <2>9 DEF Arrived
  <2>10. ASSUME NEW j \in DOMAIN clients', NEW k \in DOMAIN clients',
                clients'[j].id = clients'[k].id, clients'[j].id # None
         PROVE  j = k
    <3>1. CASE j = 1 \/ k = 1
      BY <2>2, <2>8, <2>9, <2>10, <3>1
    <3>2. CASE j # 1 /\ k # 1
      <4>1. /\ j - 1 \in DOMAIN clients /\ k - 1 \in DOMAIN clients
            /\ clients[j - 1].id = clients[k - 1].id /\ clients[j - 1].id # None
        BY <2>7, <2>10, <3>2
      <4>2. j - 1 = k - 1
        BY <1>2, <4>1 DEF Separate
      <4> QED
        BY <2>5, <2>6, <2>10, <4>2
    <3> QED
      BY <3>1, <3>2
  <2>11. ASSUME NEW j \in DOMAIN clients'
         PROVE  /\ clients'[j].id = None => clients'[j].st \in PageStates
                /\ clients'[j].id # None =>
                      clients'[j].id \notin backlog' /\ cgi'[clients'[j].id] # "idle"
                /\ clients'[j].marked
                      <=> clients'[j].id # None /\ clients'[j].id = pending'
    <3>1. CASE j = 1
      <4>1. clients'[j].id = i /\ ~clients'[j].marked
        BY <2>2, <2>8, <2>11, <3>1
      <4>2. pending # i
        BY <1>4, <2>1 DEF Known
      <4> QED
        BY <1>1, <1>2, <1>4, <2>1, <4>1, <4>2 DEF Arrived
    <3>2. CASE j # 1
      <4>1. /\ j - 1 \in DOMAIN clients /\ clients'[j] = clients[j - 1]
            /\ clients'[j].id # i
        BY <2>7, <2>9, <2>11, <3>2
      <4> QED
        BY <1>1, <1>2, <1>4, <4>1 DEF Arrived, Separate, Known, ImportOfClient
    <3> QED
      BY <3>1, <3>2
  <2> QED
    BY <1>1, <1>2, <1>4, <2>1, <2>5, <2>10, <2>11
       DEF Known, ImportOfClient, Arrived, Separate
<1> QED
  BY <1>3, <1>4 DEF Select

LEMMA ConnectKeeps ==
    ASSUME Known, NEW i \in Cgis, NEW r \in Requests, Connect(i, r)
    PROVE  Known'
<1>1. /\ cgi[i] = "idle" /\ cgi' = [cgi EXCEPT ![i] = "asks"]
      /\ backlog' = backlog \cup {i} /\ UNCHANGED <<clients, table, pending>>
  BY DEF Connect, contest
<1>2. cgi'[i] = "asks" /\ \A j \in Cgis : j # i => cgi'[j] = cgi[j]
  BY <1>1 DEF Known
<1>3. pending # None => pending \notin backlog' /\ cgi'[pending] # "idle"
  BY <1>1, <1>2 DEF Known
<1>4. ASSUME NEW k \in DOMAIN clients, clients[k].id # None
      PROVE  clients[k].id \notin backlog' /\ cgi'[clients[k].id] # "idle"
  <2>1. clients[k].id \in Cgis /\ clients[k].id # i
    BY <1>1, <1>4, ClientIs DEF Known, Arrived
  <2> QED
    BY <1>1, <1>2, <1>4, <2>1 DEF Known, Arrived
<1>5. backlog' \subseteq Cgis /\ \A j \in backlog' : cgi'[j] # "idle"
  BY <1>1, <1>2 DEF Known, Arrived
<1>6. Separate(clients)' /\ ImportOfClient'
  BY <1>1 DEF Known, Separate, ImportOfClient
<1>7. Arrived(clients)'
  BY <1>1, <1>4, <1>5 DEF Arrived
<1> QED
  BY <1>1, <1>3, <1>6, <1>7 DEF Known

\* A CGI program that has begun is not idle again.
LEMMA ProgramKeeps ==
    ASSUME Known, NEW i \in Cgis, cgi[i] # "idle", NEW st, st # "idle",
           cgi' = [cgi EXCEPT ![i] = st],
           UNCHANGED <<clients, table, pending, backlog>>
    PROVE  Known'
<1>1. \A j \in Cgis : cgi[j] # "idle" => cgi'[j] # "idle"
  BY DEF Known
<1>2. Arrived(clients)'
  BY <1>1, ClientIs DEF Known, Arrived
<1>3. Separate(clients)' /\ ImportOfClient'
  BY DEF Known, Separate, ImportOfClient
<1> QED
  BY <1>1, <1>2, <1>3 DEF Known

LEMMA KnownInit == Init => Known
<1> SUFFICES ASSUME Init PROVE Known
  OBVIOUS
<1>1. table \in Tables /\ DOMAIN cgi = Cgis /\ pending = None
  BY DEF Init, Tables
<1>2. clients = <<>> /\ DOMAIN clients = {}
  BY DEF Init
<1>3. clients \in Seq(AnyClient)
  BY <1>2
<1> QED
  BY <1>1, <1>2, <1>3 DEF Known, Separate, Arrived, ImportOfClient, Init

LEMMA KnownNext == Known /\ [Next]_vars => Known'
<1> SUFFICES ASSUME Known, [Next]_vars PROVE Known'
  OBVIOUS
<1>1. table \in Tables
  BY DEF Known
<1>2. CASE LoopRead
  BY <1>1, <1>2, UnchangedKeeps DEF LoopRead, program
<1>3. CASE LoopImport \/ LoopAbandon
  BY <1>3, LoopKeeps
<1>4. CASE Select
  BY <1>4, SelectKeeps
<1>5. ASSUME NEW k \in DOMAIN clients, Command(clients[k]) PROVE Known'
  BY <1>5, CommandKeeps
<1>6. ASSUME NEW k \in DOMAIN clients, NEW i \in Cgis, InOut(clients[k], i)
      PROVE  Known'
  BY <1>6, InputKeeps
<1>7. CASE Delete
  BY <1>7, LeaverIs DEF Delete, contest
<1>8. CASE DeleteMarked
  BY <1>8, LeaverIs DEF DeleteMarked
<1>9. CASE DeleteForgotten
  BY <1>9, LeaverIs DEF DeleteForgotten, contest
<1>10. CASE Stop
  <2>1. /\ clients' = <<>> /\ table' \in Tables /\ pending' = None /\ backlog' = {}
        /\ cgi' = cgi
    BY <1>10 DEF Stop, Tables
  <2>2. DOMAIN clients' = {} /\ clients' \in Seq(AnyClient)
    BY <2>1
  <2> QED
    BY <2>1, <2>2 DEF Known, Separate, Arrived, ImportOfClient
<1>11. ASSUME NEW i \in Cgis, NEW r \in Requests, Connect(i, r) PROVE Known'
  BY <1>11, ConnectKeeps
<1>12. ASSUME NEW i \in Cgis, Send(i) PROVE Known'
  BY <1>1, <1>12, UnchangedKeeps DEF Send, contest
<1>13. ASSUME NEW i \in Cgis, Fail(i) \/ Succeed(i) \/ Kill(i) PROVE Known'
  <2>1. PICK st \in {"failed", "ok", "killed"} : cgi' = [cgi EXCEPT ![i] = st]
    BY <1>13 DEF Fail, Succeed, Kill
  <2>2. cgi[i] = "asks" /\ UNCHANGED <<clients, table, pending, backlog>>
    BY <1>13 DEF Fail, Succeed, Kill, contest
  <2> QED
    BY <2>1, <2>2, ProgramKeeps
<1>14. CASE UlDown
  BY <1>1, <1>14, UnchangedKeeps DEF UlDown, program, contest
<1>15. CASE UNCHANGED vars
  BY <1>1, <1>15, UnchangedKeeps DEF vars, program, contest
<1> QED
  BY <1>2, <1>3, <1>4, <1>5, <1>6, <1>7, <1>8, <1>9, <1>10, <1>11, <1>12,
     <1>13, <1>14, <1>15 DEF Next, Server, Program

-----------------------------------------------------------------------------
(* Testing after an import                                                 *)

Restorable ==
    /\ suspended \in BOOLEAN /\ saved \in BOOLEAN /\ wish \in BOOLEAN
    /\ ordered \in BOOLEAN
    /\ SuspensionRestored
    /\ HeldRunsJudged
    /\ pending # None /\ ~ordered => suspended

LEMMA RestorableInit == Init => Restorable
BY DEF Init, Restorable, SuspensionRestored, HeldRunsJudged

LEMMA RestorableSame ==
    ASSUME Restorable,
           UNCHANGED <<suspended, saved, wish, ordered, pending, held>>
    PROVE  Restorable'
BY DEF Restorable, SuspensionRestored, HeldRunsJudged

\* The import ends.
LEMMA RestorableEnds ==
    ASSUME Restorable, pending # None, pending' = None, suspended' = saved,
           suspended /\ ~saved => held' = 0, UNCHANGED <<saved, wish, ordered>>
    PROVE  Restorable'
BY DEF Restorable, SuspensionRestored, HeldRunsJudged

LEMMA RestorableNext == Known /\ Restorable /\ [Next]_vars => Restorable'
<1> SUFFICES ASSUME Known, Restorable, [Next]_vars PROVE Restorable'
  OBVIOUS
<1>1. CASE LoopRead
  BY <1>1, RestorableSame DEF LoopRead
<1>2. CASE LoopImport \/ LoopAbandon
  BY <1>2, RestorableEnds DEF LoopImport, LoopAbandon, LoopEnd
<1>3. CASE Select
  BY <1>3, RestorableSame DEF Select, contest
<1>4. ASSUME NEW k \in DOMAIN clients, Command(clients[k]) PROVE Restorable'
  <2> DEFINE p == clients[k]
  <2>1. CASE PassFd(p)
    BY <2>1, RestorableSame DEF PassFd, contest
  <2>2. CASE Submit(p)
    BY <2>2 DEF Submit, Restorable, SuspensionRestored, HeldRunsJudged
  <2>3. ASSUME NEW b \in BOOLEAN, Suspension(p, b) PROVE Restorable'
    BY <2>3 DEF Suspension, Restorable, SuspensionRestored, HeldRunsJudged
  <2>4. ASSUME NEW r \in Requests, Refuse(p, r) PROVE Restorable'
    BY <2>4, RestorableSame DEF Refuse, contest
  <2>5. CASE ImportNow(p) \/ ImportRefused(p)
    BY <2>5, RestorableSame DEF ImportNow, ImportRefused, contest
  <2>6. CASE ImportWaits(p)
    <3>1. PICK part \in {"pass", "request"} : Handle(p, part)
      BY <2>6 DEF ImportWaits, Request
    <3>2. p.st = "ready"
      BY <3>1, AskingIs DEF Handle, Known, Separate
    <3>3. p.id # None
      BY <3>2, ClientIs, ConnectionsAssumption DEF PageStates
    <3> QED
      BY <2>6, <3>3 DEF ImportWaits, MayWait, Restorable, SuspensionRestored,
         HeldRunsJudged
  <2> QED
    BY <1>4, <2>1, <2>2, <2>3, <2>4, <2>5, <2>6
       DEF Command, TestSuspend, TestResume
<1>5. ASSUME NEW k \in DOMAIN clients, NEW i \in Cgis, InOut(clients[k], i)
      PROVE  Restorable'
  BY <1>5, RestorableSame
     DEF InOut, Read, ReadNothing, WriteReply, WritePage, contest
<1>6. CASE Delete \/ DeleteForgotten
  BY <1>6, RestorableSame DEF Delete, DeleteForgotten, contest
<1>7. CASE DeleteMarked
  <2>1. pending # None
    BY <1>7, LeaverIs DEF DeleteMarked
  <2> QED
    BY <1>7, <2>1, RestorableEnds DEF DeleteMarked, Restored
<1>8. CASE Stop
  <2>1. CASE pending = None
    BY <1>8, <2>1, RestorableSame DEF Stop, Unloaded
  <2>2. CASE pending # None
    BY <1>8, <2>2, RestorableEnds DEF Stop, Unloaded, Restored
  <2> QED
    BY <2>1, <2>2
<1>9. ASSUME NEW i \in Cgis, Program(i) \/ Kill(i) PROVE Restorable'
  BY <1>9, RestorableSame DEF Program, Send, Fail, Succeed, Kill, contest
<1>10. ASSUME NEW i \in Cgis, NEW r \in Requests, Connect(i, r) PROVE Restorable'
  BY <1>10, RestorableSame DEF Connect, contest
<1>11. CASE UlDown
  BY <1>11, RestorableSame DEF UlDown, contest
<1>12. CASE UNCHANGED vars
  BY <1>12, RestorableSame DEF vars, contest
<1> QED
  BY <1>1, <1>2, <1>3, <1>4, <1>5, <1>6, <1>7, <1>8, <1>9, <1>10, <1>11, <1>12
     DEF Next, Server

LEMMA InvHolds == Spec => [](Known /\ Restorable)
<1>1. Init => Known /\ Restorable
  BY KnownInit, RestorableInit
<1>2. Known /\ Restorable /\ [Next]_vars => (Known /\ Restorable)'
  BY KnownNext, RestorableNext
<1> QED
  BY <1>1, <1>2, PTL DEF Spec

-----------------------------------------------------------------------------
(* Theorems                                                                *)

\* An import that waits is marked at its client and at no other, whoever
\* connects or leaves (client_id, ns_client_destroy_callback).
THEOREM ImportsHaveClients == Spec => []ImportOfClient
<1>1. Known => ImportOfClient
  BY DEF Known
<1> QED
  BY <1>1, InvHolds, PTL

\* When no import waits, testing is suspended exactly when the judges want it,
\* however the last import ended (handle_pending_xml_import,
\* ns_client_destroy_callback, serve_state_destroy).
THEOREM SuspensionIsRestored == Spec => []SuspensionRestored
<1>1. Restorable => SuspensionRestored
  BY DEF Restorable
<1> QED
  BY <1>1, InvHolds, PTL

\* Runs submitted while an import waited are judged when it ends, if judges
\* gave no orders meanwhile (serve_judge_suspended).
THEOREM HeldRunsAreJudged == Spec => []HeldRunsJudged
<1>1. Restorable => HeldRunsJudged
  BY DEF Restorable
<1> QED
  BY <1>1, InvHolds, PTL
=============================================================================

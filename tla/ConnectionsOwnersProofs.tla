---------------------- MODULE ConnectionsOwnersProofs ----------------------
(***************************************************************************)
(* Every open descriptor of the contest server has one owner, every CGI    *)
(* program that ends well has its own page, and nobody is forgotten, for   *)
(* every number of CGI programs, runs and faults.                          *)
(*                                                                         *)
(* There are as many objects to open as there are numbers, and each object *)
(* is open at most once (Owned), so whoever opens one finds a number that  *)
(* is free.  A client that reads or writes has come so far in its request  *)
(* (Stage): it is given descriptors once, and has none when it is given a  *)
(* reply.  A page is on its way or written when the reply is (Promise),    *)
(* and the end of the pipe is with the page: whoever sees it has the page, *)
(* or the server was stopped.                                              *)
(***************************************************************************)
EXTENDS ConnectionsProofs

USE ConnectionsAssumption

-----------------------------------------------------------------------------
(* Free descriptors                                                        *)

Single(t) == \A f, g \in Fds : t[f] = t[g] /\ t[f] # None => f = g

Opens(t, o) == \E f \in Fds : t[f] = o

LEMMA ImageOf ==
    ASSUME NEW S, NEW T, IsFiniteSet(S), NEW f \in [S -> T],
           \A y \in T : \E x \in S : f[x] = y
    PROVE  IsFiniteSet(T) /\ Cardinality(T) <= Cardinality(S)
<1>1. f \in Surjection(S, T)
  BY DEF Surjection
<1> QED
  BY <1>1, FS_Surjection

LEMMA CountObjects ==
    IsFiniteSet(Objects) /\ Cardinality(Objects) <= 3 * Cardinality(Cgis) + 1
<1> DEFINE n == Cardinality(Cgis)
           C == {Conn(i) : i \in Cgis}
           O == {Out(i) : i \in Cgis}
           W == {Wait(i) : i \in Cgis}
<1>1. IsFiniteSet(Cgis) /\ n \in Nat
  BY ConnectionsAssumption, FS_CardinalityType
<1>2. IsFiniteSet(C) /\ Cardinality(C) <= n
  <2> DEFINE f == [i \in Cgis |-> Conn(i)]
  <2>1. f \in [Cgis -> C] /\ \A y \in C : \E x \in Cgis : f[x] = y
    OBVIOUS
  <2> HIDE DEF f, C
  <2> QED
    BY <1>1, <2>1, ImageOf
<1>3. IsFiniteSet(O) /\ Cardinality(O) <= n
  <2> DEFINE f == [i \in Cgis |-> Out(i)]
  <2>1. f \in [Cgis -> O] /\ \A y \in O : \E x \in Cgis : f[x] = y
    OBVIOUS
  <2> HIDE DEF f, O
  <2> QED
    BY <1>1, <2>1, ImageOf
<1>4. IsFiniteSet(W) /\ Cardinality(W) <= n
  <2> DEFINE f == [i \in Cgis |-> Wait(i)]
  <2>1. f \in [Cgis -> W] /\ \A y \in W : \E x \in Cgis : f[x] = y
    OBVIOUS
  <2> HIDE DEF f, W
  <2> QED
    BY <1>1, <2>1, ImageOf
<1>5. Objects = C \cup O \cup W \cup {UserList}
  BY DEF Objects
<1> HIDE DEF C, O, W, n
<1>6. IsFiniteSet(C \cup O) /\ Cardinality(C \cup O) <= n + n
  <2>1. /\ IsFiniteSet(C \cup O)
        /\ Cardinality(C \cup O) = Cardinality(C) + Cardinality(O) - Cardinality(C \cap O)
    BY <1>2, <1>3, FS_Union
  <2>2. Cardinality(C \cap O) \in Nat /\ Cardinality(C) \in Nat /\ Cardinality(O) \in Nat
    BY <1>2, <1>3, FS_Intersection, FS_CardinalityType
  <2> QED
    BY <1>1, <1>2, <1>3, <2>1, <2>2
<1>7. IsFiniteSet(C \cup O \cup W) /\ Cardinality(C \cup O \cup W) <= n + n + n
  <2>1. /\ IsFiniteSet((C \cup O) \cup W)
        /\ Cardinality((C \cup O) \cup W)
              = Cardinality(C \cup O) + Cardinality(W) - Cardinality((C \cup O) \cap W)
    BY <1>4, <1>6, FS_Union
  <2>2. /\ Cardinality((C \cup O) \cap W) \in Nat
        /\ Cardinality(C \cup O) \in Nat /\ Cardinality(W) \in Nat
    BY <1>4, <1>6, FS_Intersection, FS_CardinalityType
  <2> QED
    BY <1>1, <1>4, <1>6, <2>1, <2>2
<1>8. /\ IsFiniteSet(Objects)
      /\ Cardinality(Objects) <= Cardinality(C \cup O \cup W) + 1
  <2>1. Cardinality(C \cup O \cup W) \in Nat
    BY <1>7, FS_CardinalityType
  <2>2. PICK D : D = C \cup O \cup W
    OBVIOUS
  <2>3. /\ IsFiniteSet(D \cup {UserList})
        /\ Cardinality(D \cup {UserList})
              = IF UserList \in D THEN Cardinality(D) ELSE Cardinality(D) + 1
    BY <1>7, <2>2, FS_AddElement
  <2>4. Objects = D \cup {UserList}
    BY <1>5, <2>2
  <2> QED
    BY <2>1, <2>2, <2>3, <2>4
<1>9. Cardinality(Objects) \in Nat /\ Cardinality(C \cup O \cup W) \in Nat
  BY <1>7, <1>8, FS_CardinalityType
<1>10. Cardinality(Objects) <= 3 * n + 1
  BY <1>1, <1>7, <1>8, <1>9
<1> QED
  BY <1>8, <1>10 DEF n

\* There are enough numbers for all objects.
LEMMA FreeNumber ==
    ASSUME NEW t \in Tables, Single(t), NEW o \in Objects, ~Opens(t, o)
    PROVE  /\ Lowest(t) \in Fds /\ t[Lowest(t)] = None
           /\ \A f \in Fds : t[f] = None => Lowest(t) <= f
<1> DEFINE R == Objects \ {o}
           N == 3 * Cardinality(Cgis) + 1
<1>1. Cardinality(Cgis) \in Nat /\ N \in Nat
  BY ConnectionsAssumption, FS_CardinalityType
<1>2. IsFiniteSet(Fds) /\ Cardinality(Fds) = N
  BY <1>1, FS_Interval DEF Fds
<1>3. IsFiniteSet(R) /\ Cardinality(R) < N
  <2>1. IsFiniteSet(Objects) /\ Cardinality(Objects) \in Nat /\ Cardinality(Objects) <= N
    BY CountObjects, FS_CardinalityType
  <2>2. IsFiniteSet(R) /\ Cardinality(R) = Cardinality(Objects) - 1
    BY <2>1, FS_RemoveElement
  <2> QED
    BY <1>1, <2>1, <2>2
<1>4. {f \in Fds : t[f] = None} # {}
  <2> SUFFICES ASSUME \A f \in Fds : t[f] # None PROVE FALSE
    OBVIOUS
  <2>1. t \in [Fds -> R]
    BY DEF Tables, Opens
  <2>2. \E f, g \in Fds : f # g /\ t[f] = t[g]
    <3> HIDE DEF R, N
    <3> QED
      BY <1>2, <1>3, <2>1, FS_PigeonHole
  <2> QED
    BY <2>2 DEF Single
<1>5. {f \in Fds : t[f] = None} \subseteq Nat
  BY <1>1 DEF Fds
<1>6. PICK m \in {f \in Fds : t[f] = None} : \A g \in {f \in Fds : t[f] = None} : m <= g
  <2> DEFINE S == {f \in Fds : t[f] = None}
  <2> HIDE DEF S
  <2>0. S \subseteq Nat /\ S # {}
    BY <1>4, <1>5 DEF S
  <2>1. PICK n \in S : \A k \in S : ~(<<k, n>> \in OpToRel(<, Nat))
    BY <2>0, NatLessThanWellFounded, WFMin
  <2>2. \A k \in S : ~(k < n)
    BY <2>0, <2>1 DEF OpToRel
  <2>3. \A k \in S : n <= k
    BY <2>0, <2>2
  <2> QED
    BY <2>3 DEF S
<1>7. \E f \in Fds : t[f] = None /\ \A g \in Fds : t[g] = None => f <= g
  BY <1>6
<1> QED
  BY <1>7 DEF Lowest

-----------------------------------------------------------------------------
(* Owners of descriptors, for a set of clients M                           *)

\* Whose output a client holds, its own or that of the page.
Holds(c) == IF c.id = None THEN c.text ELSE IF c.out # 0 THEN c.id ELSE None

Sound(c, t) ==
    /\ c.fd \in Fds
    /\ c.id = None =>
          /\ c.text \in Cgis /\ c.out = 0 /\ c.wait \in Fds
          /\ t[c.fd] = Out(c.text) /\ t[c.wait] = Wait(c.text)
    /\ c.id # None =>
          /\ c.id \in Cgis /\ t[c.fd] = Conn(c.id)
          /\ c.out = 0 <=> c.wait = 0
          /\ c.out # 0 => /\ c.out \in Fds /\ c.wait \in Fds
                          /\ t[c.out] = Out(c.id) /\ t[c.wait] = Wait(c.id)

Alone(M) ==
    /\ \A c, d \in M : c.id = d.id /\ c.id # None => c = d
    /\ \A c, d \in M : Holds(c) = Holds(d) /\ Holds(c) # None => c = d

Numbers(c) == {c.fd, c.out, c.wait} \ {0}

Owned(M, t, u) ==
    /\ t \in Tables /\ Single(t)
    /\ \A c \in M : Sound(c, t)
    /\ Alone(M)
    /\ u # 0 => u \in Fds /\ t[u] = UserList
    /\ \A f \in Fds : t[f] # None => f = u \/ \E c \in M : f \in Numbers(c)

LEMMA ObjectsDiffer ==
    /\ \A i, j : Conn(i) # Out(j) /\ Conn(i) # Wait(j) /\ Out(i) # Wait(j)
    /\ \A i : Conn(i) # UserList /\ Out(i) # UserList /\ Wait(i) # UserList
    /\ \A i, j : Conn(i) = Conn(j) => i = j
    /\ \A i, j : Out(i) = Out(j) => i = j
    /\ \A i, j : Wait(i) = Wait(j) => i = j
    /\ \A i \in Cgis : Conn(i) # None /\ Out(i) # None /\ Wait(i) # None
    /\ UserList # None
<1>1. \A i \in Cgis : Conn(i) # None /\ Out(i) # None /\ Wait(i) # None
  BY NoneAssumption, ObjectsOf
<1>2. UserList # None
  BY NoneAssumption DEF Objects
<1> QED
  BY <1>1, <1>2 DEF Conn, Out, Wait, UserList

LEMMA FdsNotZero == 0 \notin Fds
BY DEF Fds

\* What a number of a client is open for.
LEMMA NumberIs ==
    ASSUME NEW c, NEW t, Sound(c, t), NEW f, f \in Numbers(c)
    PROVE  /\ f \in Fds
           /\ \/ c.id # None /\ c.id \in Cgis /\ f = c.fd /\ t[f] = Conn(c.id)
              \/ Holds(c) \in Cgis /\ t[f] = Out(Holds(c))
                 /\ f = (IF c.id = None THEN c.fd ELSE c.out)
              \/ Holds(c) \in Cgis /\ t[f] = Wait(Holds(c)) /\ f = c.wait
BY DEF Sound, Numbers, Holds

LEMMA Apart ==
    ASSUME NEW M, NEW t, NEW u, Owned(M, t, u), NEW c \in M, NEW f \in Numbers(c)
    PROVE  /\ f \in Fds /\ t[f] # None /\ f # u
           /\ \A d \in M : f \in Numbers(d) => d = c
<1>1. Sound(c, t) /\ Alone(M)
  BY DEF Owned
<1>2. f \in Fds /\ t[f] # None /\ t[f] # UserList
  BY <1>1, NumberIs, ObjectsDiffer
<1>3. f # u
  BY <1>2, FdsNotZero DEF Owned
<1>4. ASSUME NEW d \in M, f \in Numbers(d) PROVE d = c
  <2>1. Sound(d, t)
    BY DEF Owned
  <2>2. \/ c.id # None /\ t[f] = Conn(c.id)
        \/ Holds(c) \in Cgis /\ t[f] = Out(Holds(c))
        \/ Holds(c) \in Cgis /\ t[f] = Wait(Holds(c))
    BY <1>1, NumberIs
  <2>3. \/ d.id # None /\ t[f] = Conn(d.id)
        \/ Holds(d) \in Cgis /\ t[f] = Out(Holds(d))
        \/ Holds(d) \in Cgis /\ t[f] = Wait(Holds(d))
    BY <1>4, <2>1, NumberIs
  <2>4. (c.id # None /\ c.id = d.id) \/ (Holds(c) \in Cgis /\ Holds(c) = Holds(d))
    BY <2>2, <2>3, ObjectsDiffer
  <2> QED
    BY <1>1, <2>4, ConnectionsAssumption DEF Alone
<1> QED
  BY <1>2, <1>3, <1>4

\* Whoever is open has its owner.
LEMMA OwnerOf ==
    ASSUME NEW M, NEW t, NEW u, Owned(M, t, u), NEW i \in Cgis
    PROVE  /\ Opens(t, Conn(i)) => \E c \in M : c.id = i
           /\ Opens(t, Out(i)) => \E c \in M : Holds(c) = i
           /\ Opens(t, Wait(i)) => \E c \in M : Holds(c) = i
           /\ Opens(t, UserList) => u # 0
<1>1. ASSUME NEW f \in Fds, t[f] # None
      PROVE  \/ f = u
             \/ \E c \in M : \/ c.id # None /\ t[f] = Conn(c.id)
                             \/ Holds(c) \in Cgis /\ t[f] = Out(Holds(c))
                             \/ Holds(c) \in Cgis /\ t[f] = Wait(Holds(c))
  <2>1. f = u \/ \E c \in M : f \in Numbers(c)
    BY <1>1 DEF Owned
  <2>2. \A c \in M : Sound(c, t)
    BY DEF Owned
  <2> QED
    BY <2>1, <2>2, NumberIs
<1>2. \A f \in Fds : f = u => t[f] = UserList
  BY FdsNotZero DEF Owned
<1>3. Opens(t, Conn(i)) => \E c \in M : c.id = i
  <2> SUFFICES ASSUME NEW f \in Fds, t[f] = Conn(i) PROVE \E c \in M : c.id = i
    BY DEF Opens
  <2> QED
    BY <1>1, <1>2, ObjectsDiffer
<1>4. Opens(t, Out(i)) => \E c \in M : Holds(c) = i
  <2> SUFFICES ASSUME NEW f \in Fds, t[f] = Out(i) PROVE \E c \in M : Holds(c) = i
    BY DEF Opens
  <2> QED
    BY <1>1, <1>2, ObjectsDiffer
<1>5. Opens(t, Wait(i)) => \E c \in M : Holds(c) = i
  <2> SUFFICES ASSUME NEW f \in Fds, t[f] = Wait(i) PROVE \E c \in M : Holds(c) = i
    BY DEF Opens
  <2> QED
    BY <1>1, <1>2, ObjectsDiffer
<1>6. Opens(t, UserList) => u # 0
  <2> SUFFICES ASSUME NEW f \in Fds, t[f] = UserList PROVE u # 0
    BY DEF Opens
  <2> QED
    BY <1>1, <1>2, ObjectsDiffer, FdsNotZero
<1> QED
  BY <1>3, <1>4, <1>5, <1>6

-----------------------------------------------------------------------------
(* What the steps do to the owners                                         *)

LEMMA OpenedIs ==
    ASSUME NEW t \in Tables, Single(t), NEW o \in Objects, ~Opens(t, o)
    PROVE  /\ Lowest(t) \in Fds /\ t[Lowest(t)] = None
           /\ Opened(t, o) \in Tables /\ Single(Opened(t, o))
           /\ Opened(t, o)[Lowest(t)] = o
           /\ \A g \in Fds : g # Lowest(t) => Opened(t, o)[g] = t[g]
<1>1. PICK f : f = Lowest(t)
  OBVIOUS
<1>2. f \in Fds /\ t[f] = None
  BY <1>1, FreeNumber
<1>3. PICK t2 : t2 = [t EXCEPT ![f] = o]
  OBVIOUS
<1>4. t2 \in Tables /\ t2[f] = o /\ \A g \in Fds : g # f => t2[g] = t[g]
  BY <1>2, <1>3 DEF Tables
<1>5. o # None
  BY NoneAssumption
<1>6. Single(t2)
  BY <1>4, <1>5 DEF Single, Opens
<1> QED
  BY <1>1, <1>2, <1>3, <1>4, <1>6 DEF Opened

LEMMA ClosedIs ==
    ASSUME NEW t \in Tables, Single(t), NEW fs
    PROVE  /\ Closed(t, fs) \in Tables /\ Single(Closed(t, fs))
           /\ \A g \in Fds : Closed(t, fs)[g] = IF g \in fs THEN None ELSE t[g]
BY DEF Closed, Tables, Single

\* Another client in the place of p.
LEMMA AloneKept ==
    ASSUME NEW M, Alone(M), NEW p \in M, NEW c,
           c.id = p.id, Holds(c) \in {Holds(p), None}
    PROVE  Alone((M \ {p}) \cup {c})
BY DEF Alone

LEMMA SameOwned ==
    ASSUME NEW M, NEW t, NEW u, Owned(M, t, u), NEW p \in M, NEW c,
           c.id = p.id, c.fd = p.fd, c.out = p.out, c.wait = p.wait,
           c.id = None => c.text = p.text
    PROVE  Owned((M \ {p}) \cup {c}, t, u) /\ c \notin M \ {p}
<1>1. Sound(p, t) /\ Sound(c, t) /\ Holds(c) = Holds(p) /\ Numbers(c) = Numbers(p)
  BY DEF Owned, Sound, Holds, Numbers
<1>2. Alone((M \ {p}) \cup {c})
  BY <1>1, AloneKept DEF Owned
<1>3. c \notin M \ {p}
  <2>1. p.fd \in Numbers(p) /\ c.fd \in Numbers(c)
    BY <1>1, FdsNotZero DEF Sound, Numbers
  <2> QED
    BY <1>1, <2>1, Apart
<1> QED
  BY <1>1, <1>2, <1>3 DEF Owned

\* Descriptors that come with a request
LEMMA GainsOwned ==
    ASSUME NEW M, NEW t, NEW u, Owned(M, t, u), NEW p \in M, NEW c,
           p.id # None, \A d \in M : Holds(d) # p.id,
           c.id = p.id, c.fd = p.fd, c.out = Lowest(t),
           c.wait = Lowest(Opened(t, Out(p.id)))
    PROVE  /\ Owned((M \ {p}) \cup {c}, Opened(Opened(t, Out(p.id)), Wait(p.id)), u)
           /\ c \notin M \ {p}
<1>1. PICK i \in Cgis : i = p.id
  BY DEF Owned, Sound
<1>2. PICK t1 : t1 = Opened(t, Out(i))
  OBVIOUS
<1>3. PICK t2 : t2 = Opened(t1, Wait(i))
  OBVIOUS
<1>4. i # None /\ Out(i) \in Objects /\ Wait(i) \in Objects
  BY <1>1, ObjectsOf
<1>5. t \in Tables /\ Single(t) /\ ~Opens(t, Out(i)) /\ ~Opens(t, Wait(i))
  <2>1. ~Opens(t, Out(i)) /\ ~Opens(t, Wait(i))
    BY <1>1, OwnerOf
  <2> QED
    BY <2>1 DEF Owned
<1>6. /\ c.out \in Fds /\ t[c.out] = None /\ t1 \in Tables /\ Single(t1)
      /\ t1[c.out] = Out(i) /\ \A g \in Fds : g # c.out => t1[g] = t[g]
  BY <1>1, <1>2, <1>4, <1>5, OpenedIs
<1>7. ~Opens(t1, Wait(i))
  BY <1>5, <1>6, ObjectsDiffer DEF Opens
<1>8. /\ c.wait \in Fds /\ t1[c.wait] = None /\ t2 \in Tables /\ Single(t2)
      /\ t2[c.wait] = Wait(i) /\ \A g \in Fds : g # c.wait => t2[g] = t1[g]
  BY <1>1, <1>2, <1>3, <1>4, <1>6, <1>7, OpenedIs
<1>9. c.wait # c.out /\ t2[c.out] = Out(i) /\ t[c.wait] = None
  BY <1>4, <1>6, <1>8, ObjectsDiffer
<1>10. \A g \in Fds : t[g] # None => t2[g] = t[g]
  BY <1>6, <1>8, <1>9
<1>11. Sound(p, t) /\ p.out = 0 /\ p.wait = 0
  <2>1. Sound(p, t)
    BY DEF Owned
  <2>2. Holds(p) # p.id
    OBVIOUS
  <2> QED
    BY <1>1, <1>4, <2>1, <2>2 DEF Sound, Holds
<1>12. Sound(c, t2) /\ Holds(c) = i
  <2>1. c.out # 0 /\ c.wait # 0
    BY <1>6, <1>8, FdsNotZero
  <2>2. t[c.fd] = Conn(i) /\ c.fd \in Fds
    BY <1>1, <1>4, <1>11 DEF Sound
  <2>3. t2[c.fd] = Conn(i)
    BY <1>10, <2>2, ObjectsDiffer
  <2> QED
    BY <1>1, <1>4, <1>6, <1>8, <1>9, <2>1, <2>2, <2>3 DEF Sound, Holds
<1>13. ASSUME NEW d \in M PROVE Sound(d, t2)
  <2>1. Sound(d, t)
    BY DEF Owned
  <2> QED
    BY <1>10, <2>1, ObjectsDiffer, <1>6, <1>8 DEF Sound
<1>14. Alone((M \ {p}) \cup {c})
  BY <1>1, <1>12 DEF Alone, Owned
<1>15. c \notin M \ {p}
  BY <1>1, <1>12
<1>16. u # 0 => u \in Fds /\ t2[u] = UserList
  BY <1>10, ObjectsDiffer DEF Owned
<1>17. ASSUME NEW f \in Fds, t2[f] # None
       PROVE  f = u \/ \E d \in (M \ {p}) \cup {c} : f \in Numbers(d)
  <2>1. Numbers(c) = {p.fd, c.out, c.wait} /\ Numbers(p) = {p.fd}
    BY <1>6, <1>8, <1>11, FdsNotZero DEF Numbers, Sound
  <2>2. CASE t[f] = None
    <3>1. f = c.out \/ f = c.wait
      BY <1>6, <1>8, <1>17, <2>2
    <3> QED
      BY <2>1, <3>1
  <2>3. CASE t[f] # None
    BY <2>1, <2>3 DEF Owned
  <2> QED
    BY <2>2, <2>3
<1> QED
  BY <1>1, <1>2, <1>3, <1>8, <1>12, <1>13, <1>14, <1>15, <1>16, <1>17 DEF Owned

\* A client whose descriptors, those of fs, are closed
LEMMA BareOwned ==
    ASSUME NEW M, NEW t, NEW u, Owned(M, t, u), NEW p \in M, NEW c,
           p.id # None, c.id = p.id, c.fd = p.fd, c.out = 0, c.wait = 0,
           NEW t2, t2 = Closed(t, {p.out, p.wait})
    PROVE  Owned((M \ {p}) \cup {c}, t2, u) /\ c \notin M \ {p}
<1>1. t \in Tables /\ Single(t) /\ Sound(p, t)
  BY DEF Owned
<1>2. /\ t2 \in Tables /\ Single(t2)
      /\ \A g \in Fds : t2[g] = IF g \in {p.out, p.wait} THEN None ELSE t[g]
  BY <1>1, ClosedIs
<1>3. p.fd \in Fds /\ t[p.fd] = Conn(p.id) /\ p.id \in Cgis
  BY <1>1 DEF Sound
<1>4. p.fd \notin {p.out, p.wait}
  BY <1>1, ObjectsDiffer, FdsNotZero DEF Sound
<1>5. Sound(c, t2) /\ Holds(c) = None
  BY <1>2, <1>3, <1>4 DEF Sound, Holds
<1>6. ASSUME NEW d \in M \ {p} PROVE Sound(d, t2)
  <2>1. \A f \in Numbers(d) : f \in Fds /\ f \notin Numbers(p)
    BY <1>6, Apart
  <2>2. \A f \in Numbers(d) : t2[f] = t[f]
    BY <1>2, <2>1 DEF Numbers
  <2>3. Sound(d, t)
    BY DEF Owned
  <2> QED
    BY <2>2, <2>3, FdsNotZero DEF Sound, Numbers
<1>7. Alone((M \ {p}) \cup {c})
  BY <1>5, AloneKept DEF Owned
<1>8. c \notin M \ {p}
  <2>1. c.fd \in Numbers(c) /\ p.fd \in Numbers(p)
    BY <1>3, FdsNotZero DEF Numbers
  <2> QED
    BY <2>1, Apart
<1>9. u # 0 => u \in Fds /\ t2[u] = UserList
  <2>1. u # 0 => u \in Fds /\ t[u] = UserList
    BY DEF Owned
  <2>2. u # 0 => u \notin {p.out, p.wait}
    BY Apart DEF Numbers
  <2> QED
    BY <1>2, <2>1, <2>2
<1>10. ASSUME NEW f \in Fds, t2[f] # None
       PROVE  f = u \/ \E d \in (M \ {p}) \cup {c} : f \in Numbers(d)
  <2>1. t[f] # None /\ f \notin {p.out, p.wait}
    BY <1>2, <1>10
  <2>2. f = u \/ \E d \in M : f \in Numbers(d)
    BY <2>1 DEF Owned
  <2>3. f \in Numbers(p) => f \in Numbers(c)
    BY <2>1 DEF Numbers
  <2> QED
    BY <2>2, <2>3
<1> QED
  BY <1>2, <1>5, <1>6, <1>7, <1>8, <1>9, <1>10 DEF Owned

\* The page q takes the descriptors of p, which becomes c.
Turned(p, c, q) ==
    /\ p.id # None /\ p.out # 0
    /\ c.id = p.id /\ c.fd = p.fd /\ c.out = 0 /\ c.wait = 0
    /\ q.id = None /\ q.text = p.id /\ q.fd = p.out /\ q.out = 0
    /\ q.wait = p.wait

InPlace(M, p, c, q, t, u) ==
    /\ Owned((M \ {p}) \cup {c} \cup {q}, t, u)
    /\ c \notin M \ {p} /\ q \notin (M \ {p}) \cup {c}

LEMMA PageOwned ==
    ASSUME NEW M, NEW t, NEW u, Owned(M, t, u), NEW p \in M, NEW c, NEW q,
           Turned(p, c, q)
    PROVE  InPlace(M, p, c, q, t, u)
<1> USE DEF Turned
<1>1. Sound(p, t)
  BY DEF Owned
<1>2. Sound(c, t) /\ Holds(c) = None
  BY <1>1, ConnectionsAssumption DEF Sound, Holds
<1>3. Sound(q, t) /\ Holds(q) = p.id /\ Holds(p) = p.id
  BY <1>1 DEF Sound, Holds
<1>4. p.fd \in Numbers(p) /\ c.fd \in Numbers(c) /\ q.fd \in Numbers(q)
      /\ q.fd \in Numbers(p)
  BY <1>1, <1>2, <1>3, FdsNotZero DEF Numbers, Sound
<1>5. c \notin M \ {p} /\ q \notin M \ {p}
  BY <1>4, Apart
<1>6. q # c
  OBVIOUS
<1>7. Alone((M \ {p}) \cup {c} \cup {q})
  BY <1>2, <1>3, ConnectionsAssumption DEF Alone, Owned
<1>8. ASSUME NEW f \in Fds, t[f] # None
      PROVE  f = u \/ \E d \in (M \ {p}) \cup {c} \cup {q} : f \in Numbers(d)
  <2>1. f = u \/ \E d \in M : f \in Numbers(d)
    BY <1>8 DEF Owned
  <2>2. f \in Numbers(p) => f \in Numbers(c) \/ f \in Numbers(q)
    BY DEF Numbers
  <2> QED
    BY <2>1, <2>2
<1> QED
  BY <1>2, <1>3, <1>5, <1>6, <1>7, <1>8 DEF Owned, InPlace

LEMMA RemovedOwned ==
    ASSUME NEW M, NEW t, NEW u, Owned(M, t, u), NEW p \in M,
           NEW t2, t2 = Closed(t, {p.fd, p.out, p.wait})
    PROVE  Owned(M \ {p}, t2, u)
<1>1. t \in Tables /\ Single(t) /\ Sound(p, t)
  BY DEF Owned
<1>2. /\ t2 \in Tables /\ Single(t2)
      /\ \A g \in Fds : t2[g] = IF g \in Numbers(p) THEN None ELSE t[g]
  BY <1>1, ClosedIs, FdsNotZero DEF Numbers
<1>3. ASSUME NEW d \in M \ {p} PROVE Sound(d, t2)
  <2>1. \A f \in Numbers(d) : f \in Fds /\ f \notin Numbers(p)
    BY <1>3, Apart
  <2>2. \A f \in Numbers(d) : t2[f] = t[f]
    BY <1>2, <2>1
  <2>3. Sound(d, t)
    BY DEF Owned
  <2> QED
    BY <2>2, <2>3, FdsNotZero DEF Sound, Numbers
<1>4. Alone(M \ {p})
  BY DEF Alone, Owned
<1>5. u # 0 => u \in Fds /\ t2[u] = UserList
  <2>1. u # 0 => u \in Fds /\ t[u] = UserList
    BY DEF Owned
  <2>2. u \notin Numbers(p)
    BY Apart
  <2> QED
    BY <1>2, <2>1, <2>2
<1>6. ASSUME NEW f \in Fds, t2[f] # None
      PROVE  f = u \/ \E d \in M \ {p} : f \in Numbers(d)
  <2>1. t[f] # None /\ f \notin Numbers(p)
    BY <1>2, <1>6
  <2> QED
    BY <2>1 DEF Owned
<1> QED
  BY <1>2, <1>3, <1>4, <1>5, <1>6 DEF Owned

LEMMA AcceptedOwned ==
    ASSUME NEW M, NEW t, NEW u, Owned(M, t, u), NEW i \in Cgis,
           \A d \in M : d.id # i, NEW c,
           c.id = i, c.fd = Lowest(t), c.out = 0, c.wait = 0,
           NEW t2, t2 = Opened(t, Conn(i))
    PROVE  Owned(M \cup {c}, t2, u) /\ c \notin M
<1>1. i # None /\ Conn(i) \in Objects
  BY ObjectsOf
<1>2. ~Opens(t, Conn(i))
  BY OwnerOf
<1>3. t \in Tables /\ Single(t)
  BY DEF Owned
<1>4. /\ c.fd \in Fds /\ t[c.fd] = None /\ t2 \in Tables /\ Single(t2)
      /\ t2[c.fd] = Conn(i) /\ \A g \in Fds : g # c.fd => t2[g] = t[g]
  BY <1>1, <1>2, <1>3, OpenedIs
<1>5. Sound(c, t2) /\ Holds(c) = None /\ Numbers(c) = {c.fd}
  BY <1>1, <1>4, FdsNotZero DEF Sound, Holds, Numbers
<1>6. ASSUME NEW d \in M PROVE Sound(d, t2)
  <2>1. \A f \in Numbers(d) : f \in Fds /\ t[f] # None
    BY Apart
  <2>2. \A f \in Numbers(d) : t2[f] = t[f]
    BY <1>4, <2>1
  <2>3. Sound(d, t)
    BY DEF Owned
  <2> QED
    BY <2>2, <2>3, FdsNotZero DEF Sound, Numbers
<1>7. Alone(M \cup {c})
  BY <1>5 DEF Alone, Owned
<1>8. u # 0 => u \in Fds /\ t2[u] = UserList
  BY <1>4, ObjectsDiffer DEF Owned
<1>9. \A f \in Fds : t2[f] # None => f = u \/ \E d \in M \cup {c} : f \in Numbers(d)
  BY <1>4, <1>5 DEF Owned
<1> QED
  BY <1>4, <1>5, <1>6, <1>7, <1>8, <1>9 DEF Owned

\* The connection to userlist-server
LEMMA UlOpened ==
    ASSUME NEW M, NEW t, Owned(M, t, 0), NEW t2, t2 = Opened(t, UserList)
    PROVE  Owned(M, t2, Lowest(t))
<1>1. UserList \in Objects
  BY DEF Objects
<1>2. ~Opens(t, UserList)
  <2>1. ASSUME NEW f \in Fds, t[f] = UserList PROVE FALSE
    <3>1. PICK c \in M : f \in Numbers(c)
      BY <2>1, ObjectsDiffer, FdsNotZero DEF Owned
    <3> QED
      BY <2>1, <3>1, NumberIs, ObjectsDiffer DEF Owned
  <2> QED
    BY <2>1 DEF Opens
<1>3. t \in Tables /\ Single(t)
  BY DEF Owned
<1>4. /\ Lowest(t) \in Fds /\ t[Lowest(t)] = None /\ t2 \in Tables /\ Single(t2)
      /\ t2[Lowest(t)] = UserList /\ \A g \in Fds : g # Lowest(t) => t2[g] = t[g]
  BY <1>1, <1>2, <1>3, OpenedIs
<1>5. ASSUME NEW d \in M PROVE Sound(d, t2)
  <2>1. \A f \in Numbers(d) : f \in Fds /\ t[f] # None
    BY Apart
  <2>2. \A f \in Numbers(d) : t2[f] = t[f]
    BY <1>4, <2>1
  <2>3. Sound(d, t)
    BY DEF Owned
  <2> QED
    BY <2>2, <2>3, FdsNotZero DEF Sound, Numbers
<1>6. \A f \in Fds : t2[f] # None => f = Lowest(t) \/ \E d \in M : f \in Numbers(d)
  BY <1>4, FdsNotZero DEF Owned
<1> QED
  BY <1>4, <1>5, <1>6 DEF Owned

LEMMA UlClosed ==
    ASSUME NEW M, NEW t, NEW u, Owned(M, t, u), NEW t2, t2 = Closed(t, {u})
    PROVE  Owned(M, t2, 0)
<1>1. t \in Tables /\ Single(t)
  BY DEF Owned
<1>2. /\ t2 \in Tables /\ Single(t2)
      /\ \A g \in Fds : t2[g] = IF g = u THEN None ELSE t[g]
  BY <1>1, ClosedIs
<1>3. ASSUME NEW d \in M PROVE Sound(d, t2)
  <2>1. \A f \in Numbers(d) : f \in Fds /\ f # u
    BY Apart
  <2>2. \A f \in Numbers(d) : t2[f] = t[f]
    BY <1>2, <2>1
  <2>3. Sound(d, t)
    BY DEF Owned
  <2> QED
    BY <2>2, <2>3, FdsNotZero DEF Sound, Numbers
<1>4. \A f \in Fds : t2[f] # None => \E d \in M : f \in Numbers(d)
  BY <1>2 DEF Owned
<1> QED
  BY <1>2, <1>3, <1>4 DEF Owned

-----------------------------------------------------------------------------
(* The set of clients of a list                                            *)

InsteadOf(ds, cs, k, c) ==
    ds = [cs EXCEPT ![k] = c] /\ c \notin Range(cs) \ {cs[k]}

LEMMA ChangedRange ==
    ASSUME NEW cs \in Seq(AnyClient), IsInjective(cs), NEW k \in DOMAIN cs,
           NEW c, NEW ds, InsteadOf(ds, cs, k, c)
    PROVE  Range(ds) = (Range(cs) \ {cs[k]}) \cup {c} /\ IsInjective(ds)
<1> USE DEF InsteadOf
<1>2. DOMAIN ds = DOMAIN cs /\ \A j \in DOMAIN cs : ds[j] = IF j = k THEN c ELSE cs[j]
  OBVIOUS
<1>3. \A j \in DOMAIN cs : j # k => cs[j] \in Range(cs) \ {cs[k]}
  BY DEF IsInjective, Range
<1>4. Range(ds) = (Range(cs) \ {cs[k]}) \cup {c}
  <2>1. \A x \in Range(ds) : x \in (Range(cs) \ {cs[k]}) \cup {c}
    BY <1>2, <1>3 DEF Range
  <2>2. \A x \in Range(cs) \ {cs[k]} : x \in Range(ds)
    BY <1>2 DEF Range
  <2>3. c \in Range(ds)
    BY <1>2 DEF Range
  <2> QED
    BY <2>1, <2>2, <2>3
<1>5. ASSUME NEW i \in DOMAIN ds, NEW j \in DOMAIN ds, ds[i] = ds[j] PROVE i = j
  <2>1. CASE i = k /\ j # k
    BY <1>2, <1>3, <1>5, <2>1
  <2>2. CASE j = k /\ i # k
    BY <1>2, <1>3, <1>5, <2>2
  <2>3. CASE i # k /\ j # k
    BY <1>2, <1>5, <2>3 DEF IsInjective
  <2> QED
    BY <2>1, <2>2, <2>3
<1>6. IsInjective(ds)
  BY <1>5 DEF IsInjective
<1> QED
  BY <1>4, <1>6

LEMMA PrefixedRange ==
    ASSUME NEW cs \in Seq(AnyClient), IsInjective(cs), NEW p \in AnyClient,
           p \notin Range(cs)
    PROVE  LET ds == <<p>> \o cs
           IN  Range(ds) = Range(cs) \cup {p} /\ IsInjective(ds)
<1>1. PICK ds : ds = <<p>> \o cs
  OBVIOUS
<1>2. /\ DOMAIN ds = 1 .. Len(cs) + 1
      /\ \A j \in 1 .. Len(cs) + 1 : ds[j] = IF j = 1 THEN p ELSE cs[j - 1]
  BY <1>1, Prefix
<1>3. Len(cs) \in Nat /\ DOMAIN cs = 1 .. Len(cs)
  OBVIOUS
<1>4. ASSUME NEW j \in DOMAIN ds
      PROVE  \/ j = 1 /\ ds[j] = p
             \/ j # 1 /\ j - 1 \in DOMAIN cs /\ ds[j] = cs[j - 1]
  BY <1>2, <1>3, <1>4
<1>5. ASSUME NEW j \in DOMAIN cs PROVE j + 1 \in DOMAIN ds /\ ds[j + 1] = cs[j]
  <2>1. j + 1 \in 1 .. Len(cs) + 1 /\ j + 1 # 1 /\ (j + 1) - 1 = j
    BY <1>3, <1>5
  <2> QED
    BY <1>2, <2>1
<1>6. 1 \in DOMAIN ds /\ ds[1] = p
  BY <1>2, <1>3
<1>7. Range(ds) = Range(cs) \cup {p}
  <2>1. \A x \in Range(ds) : x \in Range(cs) \cup {p}
    BY <1>4 DEF Range
  <2>2. \A x \in Range(cs) \cup {p} : x \in Range(ds)
    BY <1>5, <1>6 DEF Range
  <2> QED
    BY <2>1, <2>2
<1>8. ASSUME NEW i \in DOMAIN ds, NEW j \in DOMAIN ds, ds[i] = ds[j] PROVE i = j
  <2>1. CASE i = 1 \/ j = 1
    BY <1>4, <1>8, <2>1 DEF Range
  <2>2. CASE i # 1 /\ j # 1
    <3>1. i - 1 \in DOMAIN cs /\ j - 1 \in DOMAIN cs /\ cs[i - 1] = cs[j - 1]
      BY <1>4, <1>8, <2>2
    <3>2. i - 1 = j - 1
      BY <3>1 DEF IsInjective
    <3> QED
      BY <1>2, <1>3, <3>2
  <2> QED
    BY <2>1, <2>2
<1>9. IsInjective(ds)
  BY <1>8 DEF IsInjective
<1> QED
  BY <1>1, <1>7, <1>9

LEMMA RemovedRange ==
    ASSUME NEW cs \in Seq(AnyClient), IsInjective(cs), NEW k \in DOMAIN cs,
           Separate(cs), NEW ds, ds = RemoveAt(cs, k)
    PROVE  /\ ds \in Seq(AnyClient)
           /\ Range(ds) = Range(cs) \ {cs[k]} /\ IsInjective(ds)
<1>1. PICK h : Removed(cs, k, ds, h)
  BY RemovedIsKept
<1>2. /\ Kept(cs, ds, h)
      /\ \A j \in DOMAIN ds : h[j] \notin {0, k} /\ ds[j] = cs[h[j]]
      /\ \A i \in DOMAIN cs : i # k => \E j \in DOMAIN ds : h[j] = i
  BY <1>1 DEF Removed
<1>3. \A j \in DOMAIN ds : h[j] \in DOMAIN cs /\ h[j] # k /\ ds[j] = cs[h[j]]
  BY <1>2 DEF Kept
<1>4. Range(ds) = Range(cs) \ {cs[k]}
  <2>1. \A x \in Range(ds) : x \in Range(cs) \ {cs[k]}
    BY <1>3 DEF Range, IsInjective
  <2>2. \A x \in Range(cs) \ {cs[k]} : x \in Range(ds)
    BY <1>2 DEF Range
  <2> QED
    BY <2>1, <2>2
<1>5. IsInjective(ds)
  <2>1. ASSUME NEW i \in DOMAIN ds, NEW j \in DOMAIN ds, ds[i] = ds[j] PROVE i = j
    <3>1. h[i] = h[j] /\ h[i] # 0
      BY <1>2, <1>3, <2>1 DEF IsInjective
    <3> QED
      BY <1>2, <3>1 DEF Kept
  <2> QED
    BY <2>1 DEF IsInjective
<1>6. ds \in Seq(AnyClient)
  BY RemovedIsKept
<1> QED
  BY <1>4, <1>5, <1>6

-----------------------------------------------------------------------------
(* Lists of clients that own the descriptors                               *)

Listed(cs, t, u) ==
    cs \in Seq(AnyClient) /\ IsInjective(cs) /\ Owned(Range(cs), t, u)

LEMMA InRange ==
    ASSUME NEW cs \in Seq(AnyClient)
    PROVE  /\ \A k \in DOMAIN cs : cs[k] \in Range(cs)
           /\ \A c \in Range(cs) : c \in AnyClient /\ \E k \in DOMAIN cs : c = cs[k]
<1>1. \A k \in DOMAIN cs : cs[k] \in AnyClient
  BY ElementOfSeq
<1> QED
  BY <1>1 DEF Range

\* A client with the same descriptors, and one without the two of its request
Like(c, p) ==
    /\ c \in AnyClient /\ c.id = p.id /\ c.fd = p.fd
    /\ c.out = p.out /\ c.wait = p.wait /\ c.text = p.text

Stripped(c, p) ==
    /\ c \in AnyClient /\ c.id = p.id /\ p.id # None /\ c.fd = p.fd
    /\ c.out = 0 /\ c.wait = 0

\* A client with two more
Gained(c, p, t) ==
    /\ c \in AnyClient /\ c.id = p.id /\ p.id # None /\ c.fd = p.fd
    /\ c.out = Lowest(t) /\ c.wait = Lowest(Opened(t, Out(p.id)))

\* A new one
Accepted(c, cs, i, t) ==
    /\ c \in AnyClient /\ c.id = i /\ c.fd = Lowest(t)
    /\ c.out = 0 /\ c.wait = 0
    /\ i \in Cgis /\ \A d \in Range(cs) : d.id # i

Joined(ds, cs, c, t, u) == Listed(ds, t, u) /\ Range(ds) = Range(cs) \cup {c}

\* Client k is replaced.
Swapped(ds, cs, k, A, t, u) ==
    Listed(ds, t, u) /\ Range(ds) = (Range(cs) \ {cs[k]}) \cup A

LEMMA ListSame ==
    ASSUME NEW cs, NEW t, NEW u, Listed(cs, t, u), NEW k \in DOMAIN cs,
           NEW c, Like(c, cs[k]), NEW ds, ds = [cs EXCEPT ![k] = c]
    PROVE  Swapped(ds, cs, k, {c}, t, u)
<1> USE DEF Like, Swapped
<1>1. cs \in Seq(AnyClient) /\ cs[k] \in Range(cs)
  BY InRange DEF Listed
<1>2. Owned((Range(cs) \ {cs[k]}) \cup {c}, t, u) /\ c \notin Range(cs) \ {cs[k]}
  BY <1>1, SameOwned DEF Listed
<1>3. Range(ds) = (Range(cs) \ {cs[k]}) \cup {c} /\ IsInjective(ds)
  <2>a. InsteadOf(ds, cs, k, c) /\ IsInjective(cs)
    BY <1>2 DEF InsteadOf, Listed
  <2> QED
    BY <1>1, <2>a, ChangedRange
<1>4. ds \in Seq(AnyClient)
  BY <1>1, ExceptSeq
<1> QED
  BY <1>2, <1>3, <1>4 DEF Listed

LEMMA ListGains ==
    ASSUME NEW cs, NEW t, NEW u, Listed(cs, t, u), NEW k \in DOMAIN cs,
           \A d \in Range(cs) : Holds(d) # cs[k].id,
           NEW c, Gained(c, cs[k], t), NEW ds, ds = [cs EXCEPT ![k] = c],
           NEW t2, t2 = Opened(Opened(t, Out(cs[k].id)), Wait(cs[k].id))
    PROVE  Swapped(ds, cs, k, {c}, t2, u)
<1> USE DEF Gained
<1>1. cs \in Seq(AnyClient) /\ cs[k] \in Range(cs)
  BY InRange DEF Listed
<1>2. Owned((Range(cs) \ {cs[k]}) \cup {c}, t2, u) /\ c \notin Range(cs) \ {cs[k]}
  BY <1>1, GainsOwned DEF Listed
<1>3. Range(ds) = (Range(cs) \ {cs[k]}) \cup {c} /\ IsInjective(ds)
  <2>a. InsteadOf(ds, cs, k, c) /\ IsInjective(cs)
    BY <1>2 DEF InsteadOf, Listed
  <2> QED
    BY <1>1, <2>a, ChangedRange
<1>4. ds \in Seq(AnyClient)
  BY <1>1, ExceptSeq
<1> QED
  BY <1>2, <1>3, <1>4 DEF Listed, Swapped

LEMMA ListBare ==
    ASSUME NEW cs, NEW t, NEW u, Listed(cs, t, u), NEW k \in DOMAIN cs,
           NEW c, Stripped(c, cs[k]), NEW ds, ds = [cs EXCEPT ![k] = c],
           NEW t2, t2 = Closed(t, {cs[k].out, cs[k].wait})
    PROVE  Swapped(ds, cs, k, {c}, t2, u)
<1> USE DEF Stripped, Swapped
<1>1. cs \in Seq(AnyClient) /\ cs[k] \in Range(cs)
  BY InRange DEF Listed
<1>2. Owned((Range(cs) \ {cs[k]}) \cup {c}, t2, u) /\ c \notin Range(cs) \ {cs[k]}
  <2>1. PICK M, p : M = Range(cs) /\ p = cs[k]
    OBVIOUS
  <2>2. Owned(M, t, u) /\ p \in M
    BY <1>1, <2>1 DEF Listed
  <2>3. Owned((M \ {p}) \cup {c}, t2, u) /\ c \notin M \ {p}
    BY <2>1, <2>2, BareOwned
  <2> QED
    BY <2>1, <2>3
<1>3. Range(ds) = (Range(cs) \ {cs[k]}) \cup {c} /\ IsInjective(ds)
  <2>a. InsteadOf(ds, cs, k, c) /\ IsInjective(cs)
    BY <1>2 DEF InsteadOf, Listed
  <2> QED
    BY <1>1, <2>a, ChangedRange
<1>4. ds \in Seq(AnyClient)
  BY <1>1, ExceptSeq
<1> QED
  BY <1>2, <1>3, <1>4 DEF Listed

LEMMA ListPage ==
    ASSUME NEW cs, NEW t, NEW u, Listed(cs, t, u), NEW k \in DOMAIN cs,
           NEW c \in AnyClient, NEW q \in AnyClient, Turned(cs[k], c, q),
           NEW ds, ds = <<q>> \o [cs EXCEPT ![k] = c]
    PROVE  Swapped(ds, cs, k, {c, q}, t, u)
<1> USE DEF Swapped
<1>1. cs \in Seq(AnyClient) /\ cs[k] \in Range(cs)
  BY InRange DEF Listed
<1>2. /\ Owned((Range(cs) \ {cs[k]}) \cup {c} \cup {q}, t, u)
      /\ c \notin Range(cs) \ {cs[k]} /\ q \notin (Range(cs) \ {cs[k]}) \cup {c}
  <2>1. PICK M, p : M = Range(cs) /\ p = cs[k]
    OBVIOUS
  <2>2. Owned(M, t, u) /\ p \in M
    BY <1>1, <2>1 DEF Listed
  <2>3. Turned(p, c, q)
    BY <2>1
  <2>4. InPlace(M, p, c, q, t, u)
    BY <2>2, <2>3, PageOwned
  <2> QED
    BY <2>1, <2>4 DEF InPlace
<1>3. PICK es : es = [cs EXCEPT ![k] = c]
  OBVIOUS
<1>4. Range(es) = (Range(cs) \ {cs[k]}) \cup {c} /\ IsInjective(es)
  <2>a. InsteadOf(es, cs, k, c) /\ IsInjective(cs)
    BY <1>2, <1>3 DEF InsteadOf, Listed
  <2> QED
    BY <1>1, <2>a, ChangedRange
<1>5. es \in Seq(AnyClient)
  BY <1>1, <1>3, ExceptSeq
<1>6. Range(ds) = Range(es) \cup {q} /\ IsInjective(ds)
  BY <1>2, <1>3, <1>4, <1>5, PrefixedRange
<1>7. ds \in Seq(AnyClient)
  BY <1>3, <1>5, Prefix
<1> QED
  BY <1>2, <1>4, <1>6, <1>7 DEF Listed

LEMMA ListRemoved ==
    ASSUME NEW cs, NEW t, NEW u, Listed(cs, t, u), NEW k \in DOMAIN cs,
           Separate(cs), NEW ds, ds = RemoveAt(cs, k),
           NEW t2, t2 = Closed(t, {cs[k].fd, cs[k].out, cs[k].wait})
    PROVE  Listed(ds, t2, u) /\ Range(ds) = Range(cs) \ {cs[k]}
<1>1. cs \in Seq(AnyClient) /\ cs[k] \in Range(cs) /\ IsInjective(cs)
  BY InRange DEF Listed
<1>2. Owned(Range(cs) \ {cs[k]}, t2, u)
  BY <1>1, RemovedOwned DEF Listed
<1>3. ds \in Seq(AnyClient) /\ Range(ds) = Range(cs) \ {cs[k]} /\ IsInjective(ds)
  BY <1>1, RemovedRange
<1> QED
  BY <1>2, <1>3 DEF Listed

LEMMA ListAccepted ==
    ASSUME NEW cs, NEW t, NEW u, Listed(cs, t, u), NEW i, NEW c, Accepted(c, cs, i, t),
           NEW ds, ds = <<c>> \o cs, NEW t2, t2 = Opened(t, Conn(i))
    PROVE  Joined(ds, cs, c, t2, u)
<1> USE DEF Accepted, Joined
<1>1. cs \in Seq(AnyClient) /\ IsInjective(cs)
  BY DEF Listed
<1>2. Owned(Range(cs) \cup {c}, t2, u) /\ c \notin Range(cs)
  BY AcceptedOwned DEF Listed
<1>3. Range(ds) = Range(cs) \cup {c} /\ IsInjective(ds)
  BY <1>1, <1>2, PrefixedRange
<1>4. ds \in Seq(AnyClient)
  BY <1>1, Prefix
<1> QED
  BY <1>2, <1>3, <1>4 DEF Listed

-----------------------------------------------------------------------------
(* How far a client is                                                     *)

\* A client that has read n parts of its request
Stage(c, n) ==
    /\ c.st # "writeclose"
    /\ c.st = "creds" => n = 0
    /\ c.st = "fds" => n = 2
    /\ c.st = "packet" => n \in {1, 3, 4}
    /\ c.st = "ready" => n = 2 \/ (n = 4 /\ c.out # 0)
    /\ c.st = "write" => n = 4 /\ c.out = 0
    /\ IF c.out = 0 THEN n # 3 ELSE n \in {3, 4}
    /\ c.marked => n = 4 /\ c.out # 0 /\ c.st \in {"packet", "disconnect"}
    /\ c.st = "packet" /\ n = 4 /\ c.out # 0 => c.marked

StepOf(c, g) ==
    IF c.id = None THEN g[c.text] = 4 ELSE Stage(c, g[c.id])

Paced ==
    /\ sent \in [Cgis -> Calls] /\ got \in [Cgis -> 0 .. 4]
    /\ \A i \in Cgis : got[i] <= sent[i]
    /\ \A i \in Cgis : cgi[i] = "idle" => sent[i] = 0
    /\ \A i \in backlog : got[i] = 0
    /\ \A c \in Range(clients) : StepOf(c, got)

Owners == Listed(clients, table, ul) /\ Paced

-----------------------------------------------------------------------------
(* The steps of the server                                                 *)

LEMMA OwnerIs ==
    ASSUME Known, Owners, NEW k \in DOMAIN clients
    PROVE  /\ clients[k] \in Range(clients) /\ clients[k] \in AnyClient
           /\ Sound(clients[k], table) /\ StepOf(clients[k], got)
           /\ clients \in Seq(AnyClient) /\ Separate(clients)
<1>1. clients[k] \in Range(clients) /\ clients[k] \in AnyClient
  BY ClientIs, InRange
<1>2. Sound(clients[k], table) /\ StepOf(clients[k], got)
  BY <1>1 DEF Owners, Listed, Owned, Paced
<1> QED
  BY <1>1, <1>2 DEF Known, Separate

\* Clients change, and nothing is sent or read.
LEMMA OwnersChange ==
    ASSUME Known, Owners, Listed(clients', table', ul'),
           NEW A, Range(clients') \subseteq Range(clients) \cup A,
           \A c \in A : StepOf(c, got), UNCHANGED <<got, sent, cgi, backlog>>
    PROVE  Owners'
<1>1. \A c \in Range(clients') : StepOf(c, got')
  BY DEF Owners, Paced
<1> QED
  BY <1>1 DEF Owners, Paced

\* A client goes from one state to another.
LEMMA OwnersMove ==
    ASSUME Known, Owners, NEW k \in DOMAIN clients, NEW st \in ClientStates,
           clients' = [clients EXCEPT ![k].st = st],
           UNCHANGED <<table, ul, sent, cgi, backlog>>,
           got' \in [Cgis -> 0 .. 4], \A i \in Cgis : got'[i] <= sent[i],
           \A i \in backlog : got'[i] = 0,
           \A d \in Range(clients) \ {clients[k]} : StepOf(d, got'),
           StepOf([clients[k] EXCEPT !.st = st], got')
    PROVE  Owners'
<1>1. PICK p : p = clients[k]
  OBVIOUS
<1>2. p \in AnyClient /\ Listed(clients, table, ul)
  BY <1>1, OwnerIs DEF Owners
<1>3. PICK c : c = [p EXCEPT !.st = st]
  OBVIOUS
<1>4. Like(c, p)
  BY <1>2, <1>3 DEF AnyClient, Like
<1>5. clients' = [clients EXCEPT ![k] = c]
  BY <1>1, <1>3
<1>a. Swapped(clients', clients, k, {c}, table, ul)
  BY <1>1, <1>2, <1>4, <1>5, ListSame
<1>6. /\ Listed(clients', table, ul)
      /\ Range(clients') = (Range(clients) \ {p}) \cup {c}
  BY <1>1, <1>a DEF Swapped
<1>7. \A d \in Range(clients') : StepOf(d, got')
  BY <1>1, <1>3, <1>6
<1> QED
  BY <1>6, <1>7 DEF Owners, Paced

LEMMA OwnersDisconnect ==
    ASSUME Known, Owners, Leaving # 0, Disconnect(Leaving)
    PROVE  Owners'
<1>1. PICK k : k = Leaving /\ k \in DOMAIN clients
  BY LeavingIs DEF Known, Separate
<1>2. Separate(clients) /\ Listed(clients, table, ul)
  BY DEF Known, Owners
<1>3. /\ clients' = RemoveAt(clients, k)
      /\ table' = Closed(table, {clients[k].fd, clients[k].out, clients[k].wait})
      /\ UNCHANGED <<ul, got, sent, cgi, backlog>>
  BY <1>1 DEF Disconnect, program
<1>4. /\ Listed(clients', table', ul)
      /\ Range(clients') = Range(clients) \ {clients[k]}
  BY <1>1, <1>2, <1>3, ListRemoved
<1>5. PICK A : A = Range(clients)
  OBVIOUS
<1>6. /\ Range(clients') \subseteq Range(clients) \cup A
      /\ \A c \in A : StepOf(c, got)
  BY <1>4, <1>5 DEF Owners, Paced
<1>7. Listed(clients', table', ul')
  BY <1>3, <1>4
<1> QED
  BY <1>3, <1>6, <1>7, OwnersChange

Done(p, r) == [Replied(WithoutFds(p), r) EXCEPT !.marked = FALSE]

ThePage(p) ==
    [NewClient(None, p.out) EXCEPT !.wait = p.wait, !.st = "writeclose", !.text = p.id]

LEMMA DoneIs ==
    ASSUME NEW p \in AnyClient, p.id # None, NEW r \in {"ok", "error"},
           NEW c, c = Done(p, r)
    PROVE  /\ c \in AnyClient /\ c.id = p.id /\ c.fd = p.fd /\ c.out = 0
           /\ c.wait = 0 /\ c.st = "write" /\ c.marked = FALSE
<1>1. 0 \in AnyFd
  BY DEF AnyFd
<1> QED
  BY <1>1 DEF Done, Replied, WithoutFds, AnyClient, ClientStates, Writing

LEMMA ThePageIs ==
    ASSUME NEW p \in AnyClient, p.id # None, NEW q, q = ThePage(p)
    PROVE  /\ q \in AnyClient /\ q.id = None /\ q.text = p.id /\ q.fd = p.out
           /\ q.out = 0 /\ q.wait = p.wait /\ q.st = "writeclose"
<1>1. 0 \in AnyFd
  BY DEF AnyFd
<1> QED
  BY <1>1 DEF ThePage, NewClient, AnyClient, ClientStates, Writing

LEMMA OwnersPage ==
    ASSUME Known, Owners, NEW k \in DOMAIN clients, clients[k].id # None,
           clients[k].out # 0, got[clients[k].id] = 4,
           clients' = <<ThePage(clients[k])>>
                         \o [clients EXCEPT ![k] = Done(clients[k], "ok")],
           Listed(clients, table', ul'), UNCHANGED <<got, sent, cgi, backlog>>
    PROVE  Owners'
<1>1. PICK p : p = clients[k]
  OBVIOUS
<1>2. p \in AnyClient
  BY <1>1, OwnerIs
<1>3. PICK c : c = Done(p, "ok")
  OBVIOUS
<1>4. /\ c \in AnyClient /\ c.id = p.id /\ c.fd = p.fd /\ c.out = 0
      /\ c.wait = 0 /\ c.st = "write" /\ c.marked = FALSE
  BY <1>1, <1>2, <1>3, DoneIs
<1>5. PICK q : q = ThePage(p)
  OBVIOUS
<1>6. /\ q \in AnyClient /\ q.id = None /\ q.text = p.id /\ q.fd = p.out
      /\ q.out = 0 /\ q.wait = p.wait
  BY <1>1, <1>2, <1>5, ThePageIs
<1>7. clients' = <<q>> \o [clients EXCEPT ![k] = c]
  BY <1>1, <1>3, <1>5
<1>a. Turned(p, c, q)
  BY <1>1, <1>4, <1>6 DEF Turned
<1>b. Swapped(clients', clients, k, {c, q}, table', ul')
  <2>1. PICK t, u : t = table' /\ u = ul'
    OBVIOUS
  <2>2. Swapped(clients', clients, k, {c, q}, t, u)
    BY <1>1, <1>4, <1>6, <1>7, <1>a, <2>1, ListPage
  <2> QED
    BY <2>1, <2>2
<1>8. /\ Listed(clients', table', ul')
      /\ Range(clients') = (Range(clients) \ {p}) \cup {c, q}
  BY <1>1, <1>b DEF Swapped
<1>9. StepOf(c, got) /\ StepOf(q, got)
  BY <1>1, <1>4, <1>6 DEF StepOf, Stage
<1>10. Range(clients') \subseteq Range(clients) \cup {c, q}
  BY <1>8
<1> QED
  BY <1>8, <1>9, <1>10, OwnersChange

LEMMA OwnersBare ==
    ASSUME Known, Owners, NEW k \in DOMAIN clients, clients[k].id # None,
           got[clients[k].id] = 4, NEW r \in {"ok", "error"},
           clients' = [clients EXCEPT ![k] = Done(clients[k], r)],
           NEW t, Listed(clients, t, ul'),
           table' = Closed(t, {clients[k].out, clients[k].wait}),
           UNCHANGED <<got, sent, cgi, backlog>>
    PROVE  Owners'
<1>1. PICK p : p = clients[k]
  OBVIOUS
<1>2. p \in AnyClient
  BY <1>1, OwnerIs
<1>3. PICK c : c = Done(p, r)
  OBVIOUS
<1>4. /\ c \in AnyClient /\ c.id = p.id /\ c.fd = p.fd /\ c.out = 0
      /\ c.wait = 0 /\ c.st = "write" /\ c.marked = FALSE
  BY <1>1, <1>2, <1>3, DoneIs
<1>5. clients' = [clients EXCEPT ![k] = c]
  BY <1>1, <1>3
<1>a. Stripped(c, p)
  BY <1>1, <1>4 DEF Stripped
<1>b. Swapped(clients', clients, k, {c}, table', ul')
  <2>1. PICK t2, u : t2 = table' /\ u = ul'
    OBVIOUS
  <2>2. Swapped(clients', clients, k, {c}, t2, u)
    BY <1>1, <1>5, <1>a, <2>1, ListBare
  <2> QED
    BY <2>1, <2>2
<1>6. /\ Listed(clients', table', ul')
      /\ Range(clients') = (Range(clients) \ {p}) \cup {c}
  BY <1>1, <1>b DEF Swapped
<1>7. StepOf(c, got)
  BY <1>1, <1>4 DEF StepOf, Stage
<1>8. Range(clients') \subseteq Range(clients) \cup {c}
  BY <1>6
<1> QED
  BY <1>6, <1>7, <1>8, OwnersChange

\* The replies are these when the client had no mark.
LEMMA ReplyIs ==
    ASSUME Known, NEW k \in DOMAIN clients, ~clients[k].marked, NEW r
    PROVE  /\ Bare(k, r) = [clients EXCEPT ![k] = Done(clients[k], r)]
           /\ PageOf(k) = <<ThePage(clients[k])>>
                             \o [clients EXCEPT ![k] = Done(clients[k], "ok")]
<1>1. PICK p : p = clients[k] /\ p \in AnyClient /\ p.marked = FALSE
  BY ClientIs DEF AnyClient
<1>2. \A x : Done(p, x) = Replied(WithoutFds(p), x)
  BY <1>1 DEF Done, Replied, WithoutFds, AnyClient
<1>3. Bare(k, r) = [clients EXCEPT ![k] = Replied(WithoutFds(p), r)]
  BY <1>1 DEF Bare
<1>4. PageOf(k) = <<ThePage(p)>> \o [clients EXCEPT ![k] = Replied(WithoutFds(p), "ok")]
  BY <1>1 DEF PageOf, ThePage
<1> QED
  BY <1>1, <1>2, <1>3, <1>4

LEMMA OwnersInOut ==
    ASSUME Known, Owners, NEW k \in DOMAIN clients, NEW i \in Cgis,
           InOut(clients[k], i)
    PROVE  Owners'
<1>1. PICK r : r = Ready /\ r \in DOMAIN clients /\ clients[k] = clients[r]
  BY ReadyIs DEF InOut, Read, ReadNothing, WriteReply, WritePage, Io, Known,
     Separate
<1>2. PICK p : p = clients[k]
  OBVIOUS
<1>3. /\ p \in Range(clients) /\ p \in AnyClient /\ Sound(p, table)
      /\ StepOf(p, got) /\ Separate(clients)
  BY <1>2, OwnerIs
<1>4. UNCHANGED <<ul, sent, cgi, backlog>>
  BY DEF InOut, Read, ReadNothing, WriteReply, WritePage, program
<1>5. Paced /\ i # None
  BY DEF Owners
<1>6. table[p.fd] = Conn(i) => p.id = i
  BY <1>3, <1>5, ObjectsDiffer DEF Sound
<1>7. table[p.fd] = Out(i) => p.id = None
  BY <1>3, ObjectsDiffer DEF Sound
<1>8. ASSUME NEW st \in ClientStates, Moves(st), UNCHANGED <<table, got>>,
             StepOf([p EXCEPT !.st = st], got)
      PROVE  Owners'
  <2>1. clients' = [clients EXCEPT ![r].st = st]
    BY <1>1, <1>8 DEF Moves
  <2>2. \A d \in Range(clients) : StepOf(d, got')
    BY <1>5, <1>8 DEF Paced
  <2>3. StepOf([clients[r] EXCEPT !.st = st], got')
    BY <1>1, <1>2, <1>8
  <2>4. /\ got' \in [Cgis -> 0 .. 4] /\ \A j \in Cgis : got'[j] <= sent[j]
        /\ \A j \in backlog : got'[j] = 0
    BY <1>5, <1>8 DEF Paced
  <2> QED
    BY <1>1, <1>4, <1>8, <2>1, <2>2, <2>3, <2>4, OwnersMove
<1>9. CASE Read(p, i)
  <2>1. /\ p.id = i /\ got[i] < sent[i] /\ got' = [got EXCEPT ![i] = @ + 1]
        /\ p.st \in Reading
    BY <1>6, <1>9 DEF Read
  <2>2. got[i] \in 0 .. 4 /\ sent[i] \in 0 .. 4
    BY <1>5 DEF Paced, Calls
  <2>3. /\ got' \in [Cgis -> 0 .. 4] /\ got'[i] = got[i] + 1 /\ got[i] # 4
        /\ \A j \in Cgis : j # i => got'[j] = got[j]
    BY <1>5, <2>1, <2>2 DEF Paced
  <2>4. \A j \in Cgis : got'[j] <= sent[j]
    BY <1>5, <2>1, <2>2, <2>3 DEF Paced
  <2>5. i \notin backlog
    BY <1>2, <1>5, <2>1 DEF Known, Arrived
  <2>6. \A j \in backlog : got'[j] = 0
    BY <1>5, <2>3, <2>5 DEF Known, Arrived, Paced
  <2>7. ASSUME NEW d \in Range(clients), d # p PROVE StepOf(d, got')
    <3>1. StepOf(d, got) /\ Sound(d, table)
      BY <1>5, <2>7 DEF Paced, Owners, Listed, Owned
    <3>2. d.id # i
      BY <1>3, <1>5, <2>1, <2>7 DEF Owners, Listed, Owned, Alone
    <3>3. CASE d.id = None
      <4>1. d.text \in Cgis /\ got[d.text] = 4
        BY <3>1, <3>3 DEF StepOf, Sound
      <4> QED
        BY <2>3, <3>3, <4>1 DEF StepOf
    <3>4. CASE d.id # None
      <4>1. d.id \in Cgis /\ got'[d.id] = got[d.id]
        BY <2>3, <3>1, <3>2, <3>4 DEF Sound
      <4> QED
        BY <3>1, <3>4, <4>1 DEF StepOf
    <3> QED
      BY <3>3, <3>4
  <2>8. Stage(p, got[i])
    BY <1>3, <1>5, <2>1 DEF StepOf
  <2>9. ASSUME NEW st \in ClientStates, Moves(st), table' = table,
               Stage([p EXCEPT !.st = st], got'[i])
        PROVE  Owners'
    <3>1. clients' = [clients EXCEPT ![r].st = st]
      BY <1>1, <2>9 DEF Moves
    <3>2. StepOf([clients[r] EXCEPT !.st = st], got')
      BY <1>1, <1>2, <1>3, <1>5, <2>1, <2>9 DEF StepOf, AnyClient
    <3> QED
      BY <1>1, <1>2, <1>4, <2>3, <2>4, <2>6, <2>7, <2>9, <3>1, <3>2, OwnersMove
  <2>10. CASE p.st = "creds" /\ Moves("packet") /\ table' = table
    <3>1. Stage([p EXCEPT !.st = "packet"], got'[i])
      BY <1>3, <2>3, <2>8, <2>10 DEF Stage, AnyClient
    <3> QED
      BY <2>9, <2>10, <3>1 DEF ClientStates, Reading
  <2>11. CASE p.st = "packet" /\ Moves("ready") /\ table' = table
    <3>1. Stage([p EXCEPT !.st = "ready"], got'[i])
      BY <1>3, <2>2, <2>3, <2>8, <2>11 DEF Stage, AnyClient
    <3> QED
      BY <2>9, <2>11, <3>1 DEF ClientStates
  <2>12. CASE /\ p.st = "fds"
              /\ LET t1 == Opened(table, Out(i))
                 IN  /\ table' = Opened(t1, Wait(i))
                     /\ clients' = [clients EXCEPT ![r] =
                            [p EXCEPT !.st = "packet", !.out = Lowest(table),
                                      !.wait = Lowest(t1)]]
    <3>1. PICK f, g : f = Lowest(table) /\ g = Lowest(Opened(table, Out(i)))
      OBVIOUS
    <3>2. f \in AnyFd /\ g \in AnyFd
      BY <3>1, TablesKept, ObjectsOf DEF Known
    <3>3. PICK c : c = [p EXCEPT !.st = "packet", !.out = f, !.wait = g]
      OBVIOUS
    <3>4. /\ c \in AnyClient /\ c.id = p.id /\ c.fd = p.fd /\ c.out = f
          /\ c.wait = g /\ c.st = "packet" /\ c.marked = p.marked
      BY <1>3, <3>2, <3>3 DEF AnyClient, ClientStates, Reading
    <3>5. clients' = [clients EXCEPT ![r] = c]
      BY <2>12, <3>1, <3>3
    <3>6. ASSUME NEW d \in Range(clients) PROVE Holds(d) # i
      <4>1. CASE d = p
        BY <1>5, <2>1, <2>2, <2>8, <2>12, <4>1 DEF Holds, Stage
      <4>2. CASE d # p /\ d.id # None
        <5>1. d.id # i
          BY <1>3, <1>5, <2>1, <3>6, <4>2 DEF Owners, Listed, Owned, Alone
        <5> QED
          BY <1>5, <4>2, <5>1 DEF Holds
      <4>3. CASE d.id = None
        <5>1. got[d.text] = 4
          BY <1>5, <3>6, <4>3 DEF Paced, StepOf
        <5> QED
          BY <2>3, <4>3, <5>1 DEF Holds
      <4> QED
        BY <4>1, <4>2, <4>3
    <3>7. /\ Listed(clients', Opened(Opened(table, Out(i)), Wait(i)), ul)
          /\ Range(clients') = (Range(clients) \ {p}) \cup {c}
      <4>1. PICK t2 : t2 = Opened(Opened(table, Out(p.id)), Wait(p.id))
        OBVIOUS
      <4>2. Gained(c, p, table)
        BY <1>5, <2>1, <3>1, <3>4 DEF Gained
      <4>3. Listed(clients, table, ul) /\ p = clients[r]
        BY <1>1, <1>2 DEF Owners
      <4>4. Swapped(clients', clients, r, {c}, t2, ul)
        BY <1>1, <2>1, <3>5, <3>6, <4>1, <4>2, <4>3, ListGains
      <4> QED
        BY <2>1, <4>1, <4>3, <4>4 DEF Swapped
    <3>8. Listed(clients', table', ul')
      BY <1>4, <2>12, <3>7
    <3>9. StepOf(c, got')
      <4>1. f \in Fds
        <5>1. Owned(Range(clients), table, ul)
          BY DEF Owners, Listed
        <5>2. ~Opens(table, Out(i))
          BY <3>6, <5>1, OwnerOf
        <5> QED
          BY <3>1, <5>1, <5>2, OpenedIs, ObjectsOf DEF Owned
      <4>2. c.out # 0
        BY <3>4, <4>1, FdsNotZero
      <4>3. got'[i] = 3
        BY <2>3, <2>8, <2>12 DEF Stage
      <4>4. ~p.marked
        BY <2>8, <2>12 DEF Stage
      <4> QED
        BY <1>5, <2>1, <3>4, <4>2, <4>3, <4>4 DEF StepOf, Stage
    <3>10. \A d \in Range(clients') : StepOf(d, got')
      BY <2>7, <3>7, <3>9
    <3> QED
      BY <1>4, <1>5, <2>3, <2>4, <2>6, <3>8, <3>10 DEF Owners, Paced
  <2> QED
    BY <1>1, <1>9, <2>10, <2>11, <2>12 DEF Read
<1>10. CASE ReadNothing(p, i)
  <2>1. UNCHANGED <<table, got>>
    BY <1>10 DEF ReadNothing
  <2>2. CASE Moves("disconnect")
    <3>1. StepOf([p EXCEPT !.st = "disconnect"], got)
      BY <1>3 DEF StepOf, Stage, AnyClient
    <3> QED
      BY <1>8, <2>1, <2>2, <3>1 DEF ClientStates
  <2>3. CASE UNCHANGED clients
    BY <1>4, <2>1, <2>3 DEF Owners, Paced
  <2> QED
    BY <1>10, <2>2, <2>3 DEF ReadNothing
<1>11. CASE WriteReply(p, i)
  <2>1. UNCHANGED <<table, got>> /\ p.id = i /\ p.st = "write"
    BY <1>6, <1>11 DEF WriteReply
  <2>2. \A st \in {"packet", "disconnect"} : StepOf([p EXCEPT !.st = st], got)
    BY <1>3, <1>5, <2>1 DEF StepOf, Stage, AnyClient
  <2> QED
    BY <1>8, <1>11, <2>1, <2>2 DEF WriteReply, ClientStates, Reading
<1>12. CASE WritePage(p, i)
  <2>1. UNCHANGED <<table, got>> /\ p.id = None
    BY <1>7, <1>12 DEF WritePage
  <2>2. StepOf([p EXCEPT !.st = "disconnect"], got)
    BY <1>3, <2>1 DEF StepOf, AnyClient
  <2> QED
    BY <1>8, <1>12, <2>1, <2>2 DEF WritePage, ClientStates
<1> QED
  BY <1>2, <1>9, <1>10, <1>11, <1>12 DEF InOut

\* The connection to userlist-server is there when a request is executed.
LEMMA UlIsOpen ==
    ASSUME Owners
    PROVE  Listed(clients, TableNow, UlNow)
<1>1. CASE ul = 0
  BY <1>1, UlOpened DEF Owners, Listed, TableNow, UlNow
<1>2. CASE ul # 0
  BY <1>2 DEF Owners, Listed, TableNow, UlNow
<1> QED
  BY <1>1, <1>2

LEMMA OwnersCommand ==
    ASSUME Known, Owners, NEW k \in DOMAIN clients, Command(clients[k])
    PROVE  Owners'
<1>1. PICK p : p = clients[k]
  OBVIOUS
<1>2. PICK part \in {"pass", "request"} : Handle(p, part)
  BY <1>1 DEF Command, PassFd, Submit, TestSuspend, TestResume, Suspension, Refuse,
              ImportNow, ImportRefused, ImportWaits, Request
<1>3. PICK a : a = Asking /\ a \in DOMAIN clients /\ p = clients[a] /\ p.st = "ready"
  BY <1>2, AskingIs DEF Handle, Known, Separate
<1>4. /\ p \in Range(clients) /\ p \in AnyClient /\ Sound(p, table)
      /\ StepOf(p, got)
  BY <1>3, OwnerIs
<1>5. p.id # None /\ p.id \in Cgis
  <2>1. p.st \notin PageStates
    BY <1>3 DEF PageStates
  <2> QED
    BY <1>3, <2>1, ClientIs
<1>6. Stage(p, got[p.id])
  BY <1>4, <1>5 DEF StepOf
<1>7. UNCHANGED <<got, sent, cgi, backlog>>
  BY <1>2 DEF Handle, program
<1>8. ~p.marked
  BY <1>3, <1>6 DEF Stage
<1>9. Script[2] = "pass" /\ Script[4] = "request"
  BY DEF Script
<1>10. CASE PassFd(p)
  <2>1. got[p.id] = 2
    BY <1>3, <1>6, <1>9, <1>10 DEF PassFd, Handle, Stage
  <2>2. StepOf([p EXCEPT !.st = "fds"], got)
    BY <1>4, <1>5, <1>6, <2>1 DEF StepOf, Stage, AnyClient
  <2>3. clients' = [clients EXCEPT ![a].st = "fds"] /\ UNCHANGED <<table, ul>>
    BY <1>3, <1>10 DEF PassFd
  <2>4. /\ got' \in [Cgis -> 0 .. 4] /\ \A j \in Cgis : got'[j] <= sent[j]
        /\ \A j \in backlog : got'[j] = 0
        /\ \A d \in Range(clients) : StepOf(d, got')
    BY <1>7 DEF Owners, Paced
  <2>5. StepOf([clients[a] EXCEPT !.st = "fds"], got') /\ "fds" \in ClientStates
    BY <1>3, <1>7, <2>2 DEF ClientStates, Reading
  <2> QED
    BY <1>3, <1>7, <2>3, <2>4, <2>5, OwnersMove
<1>11. ASSUME NEW r, Request(p, r)
       PROVE  got[p.id] = 4 /\ p.out # 0 /\ ul' = UlNow
  BY <1>3, <1>6, <1>9, <1>11 DEF Request, Handle, Stage
<1>12. Listed(clients, TableNow, UlNow)
  BY UlIsOpen
<1>13. ASSUME NEW r, Request(p, r), ReplyPage PROVE Owners'
  <2>1. /\ clients' = <<ThePage(clients[a])>>
                         \o [clients EXCEPT ![a] = Done(clients[a], "ok")]
        /\ table' = TableNow
    BY <1>3, <1>8, <1>13, ReplyIs DEF ReplyPage
  <2>2. Listed(clients, table', ul')
    BY <1>11, <1>12, <1>13, <2>1
  <2> QED
    BY <1>3, <1>5, <1>7, <1>11, <1>13, <2>1, <2>2, OwnersPage
<1>14. ASSUME NEW r, Request(p, r), NEW x \in {"ok", "error"}, ReplyBare(x)
       PROVE  Owners'
  <2>1. PICK t : t = TableNow
    OBVIOUS
  <2>2. /\ clients' = [clients EXCEPT ![a] = Done(clients[a], x)]
        /\ table' = Closed(t, {clients[a].out, clients[a].wait})
    BY <1>3, <1>8, <1>14, <2>1, ReplyIs DEF ReplyBare
  <2>3. Listed(clients, t, ul')
    BY <1>11, <1>12, <1>14, <2>1
  <2> QED
    BY <1>3, <1>5, <1>7, <1>11, <1>14, <2>2, <2>3, OwnersBare
<1>15. CASE Submit(p)
  BY <1>13, <1>15 DEF Submit
<1>16. CASE TestSuspend(p) \/ TestResume(p)
  BY <1>14, <1>16 DEF TestSuspend, TestResume, Suspension
<1>17. ASSUME NEW r \in Requests, Refuse(p, r) PROVE Owners'
  BY <1>14, <1>17 DEF Refuse
<1>18. CASE ImportNow(p)
  BY <1>13, <1>14, <1>18 DEF ImportNow
<1>19. CASE ImportRefused(p)
  BY <1>14, <1>19 DEF ImportRefused
<1>20. CASE ImportWaits(p)
  <2>1. got[p.id] = 4 /\ p.out # 0 /\ ul' = UlNow /\ table' = TableNow
    BY <1>11, <1>20 DEF ImportWaits
  <2>2. PICK c : c = [p EXCEPT !.st = "packet", !.marked = TRUE]
    OBVIOUS
  <2>3. /\ c \in AnyClient /\ c.id = p.id /\ c.fd = p.fd /\ c.out = p.out
        /\ c.wait = p.wait /\ c.text = p.text /\ c.st = "packet" /\ c.marked = TRUE
    BY <1>4, <2>2 DEF AnyClient, ClientStates, Reading
  <2>4. clients' = [clients EXCEPT ![a] = c]
    BY <1>3, <1>20, <2>2 DEF ImportWaits
  <2>5. PICK t, u : t = TableNow /\ u = UlNow
    OBVIOUS
  <2>6. Like(c, clients[a])
    BY <1>3, <2>3 DEF Like
  <2>7. Swapped(clients', clients, a, {c}, t, u)
    BY <1>3, <1>12, <2>4, <2>5, <2>6, ListSame
  <2>8. StepOf(c, got)
    BY <1>5, <2>1, <2>3 DEF StepOf, Stage
  <2>9. PICK A : A = {c}
    OBVIOUS
  <2>10. /\ Listed(clients', table', ul')
         /\ Range(clients') \subseteq Range(clients) \cup A
         /\ \A d \in A : StepOf(d, got)
    BY <2>1, <2>5, <2>7, <2>8, <2>9 DEF Swapped
  <2> QED
    BY <1>7, <2>10, OwnersChange
<1> QED
  BY <1>1, <1>10, <1>15, <1>16, <1>17, <1>18, <1>19, <1>20 DEF Command

\* What is left of the mark when the import ends
LEMMA UnmarkedIs ==
    ASSUME Known, NEW k \in DOMAIN clients, clients[k].id = pending, pending # None
    PROVE  /\ Unmarked(Bare(k, "ok")) = [clients EXCEPT ![k] = Done(clients[k], "ok")]
           /\ Unmarked(PageOf(k)) = <<ThePage(clients[k])>>
                            \o [clients EXCEPT ![k] = Done(clients[k], "ok")]
<1>1. PICK p : p = clients[k]
  OBVIOUS
<1>2. p \in AnyClient /\ clients \in Seq(AnyClient) /\ Separate(clients)
  BY <1>1, ClientIs DEF Known
<1>3. PICK q : q = ThePage(p)
  OBVIOUS
<1>4. PICK c : c = Replied(WithoutFds(p), "ok")
  OBVIOUS
<1>5. PICK d : d = [c EXCEPT !.marked = FALSE]
  OBVIOUS
<1>6. /\ q \in AnyClient /\ q.id = None
      /\ d = Done(p, "ok") /\ d \in AnyClient
  BY <1>1, <1>2, <1>3, <1>4, <1>5, ThePageIs, DoneIs DEF Done
<1>7. c \in AnyClient /\ c.id = p.id
  <2>1. 0 \in AnyFd
    BY DEF AnyFd
  <2> QED
    BY <1>2, <1>4, <2>1 DEF Replied, WithoutFds, AnyClient, ClientStates, Writing
<1>8. PICK bare : bare = [clients EXCEPT ![k] = c]
  OBVIOUS
<1>9. PICK done : done = [clients EXCEPT ![k] = d]
  OBVIOUS
<1>10. /\ bare \in Seq(AnyClient) /\ done \in Seq(AnyClient)
       /\ Len(bare) = Len(clients) /\ Len(done) = Len(clients)
  BY <1>2, <1>6, <1>7, <1>8, <1>9, ExceptSeq
<1>11. bare = Bare(k, "ok") /\ <<q>> \o bare = PageOf(k)
  BY <1>1, <1>3, <1>4, <1>8 DEF Bare, PageOf, ThePage
<1>12. /\ DOMAIN bare = DOMAIN clients /\ DOMAIN done = DOMAIN clients
       /\ \A j \in DOMAIN clients : done[j] =
             IF bare[j].id = pending THEN [bare[j] EXCEPT !.marked = FALSE] ELSE bare[j]
  <2>1. DOMAIN bare = DOMAIN clients /\ DOMAIN done = DOMAIN clients
    BY <1>8, <1>9
  <2>2. ASSUME NEW j \in DOMAIN clients
        PROVE  done[j] = IF bare[j].id = pending THEN [bare[j] EXCEPT !.marked = FALSE]
                         ELSE bare[j]
    <3>1. CASE j = k
      BY <1>1, <1>5, <1>7, <1>8, <1>9, <3>1
    <3>2. CASE j # k
      <4>1. clients[j].id # pending
        BY <1>1, <1>2, <2>2, <3>2 DEF Separate
      <4> QED
        BY <1>8, <1>9, <3>2, <4>1
    <3> QED
      BY <3>1, <3>2
  <2> QED
    BY <2>1, <2>2
<1>13. Unmarked(bare) = done
  <2>1. done = [j \in DOMAIN done |-> done[j]]
    BY <1>10
  <2> QED
    BY <1>12, <2>1 DEF Unmarked
<1>14. Unmarked(<<q>> \o bare) = <<q>> \o done
  <2>0. PICK z \in AnyClient : z = q
    BY <1>6
  <2>1. PICK x, y : x = <<z>> \o bare /\ y = <<z>> \o done
    OBVIOUS
  <2>2. /\ x \in Seq(AnyClient) /\ DOMAIN x = 1 .. Len(clients) + 1
        /\ \A j \in 1 .. Len(clients) + 1 : x[j] = IF j = 1 THEN z ELSE bare[j - 1]
    <3>1. /\ x \in Seq(AnyClient) /\ DOMAIN x = 1 .. Len(bare) + 1
          /\ \A j \in 1 .. Len(bare) + 1 : x[j] = IF j = 1 THEN z ELSE bare[j - 1]
      <4>1. bare \in Seq(AnyClient)
        BY <1>10
      <4> QED
        BY <2>1, <4>1, Prefix
    <3> QED
      BY <1>10, <3>1
  <2>3. /\ y \in Seq(AnyClient) /\ DOMAIN y = 1 .. Len(clients) + 1
        /\ \A j \in 1 .. Len(clients) + 1 : y[j] = IF j = 1 THEN z ELSE done[j - 1]
    <3>1. /\ y \in Seq(AnyClient) /\ DOMAIN y = 1 .. Len(done) + 1
          /\ \A j \in 1 .. Len(done) + 1 : y[j] = IF j = 1 THEN z ELSE done[j - 1]
      <4>1. done \in Seq(AnyClient)
        BY <1>10
      <4> QED
        BY <2>1, <4>1, Prefix
    <3> QED
      BY <1>10, <3>1
  <2>4. ASSUME NEW j \in 1 .. Len(clients) + 1
        PROVE  y[j] = IF x[j].id = pending THEN [x[j] EXCEPT !.marked = FALSE] ELSE x[j]
    <3>1. CASE j = 1
      BY <1>6, <2>0, <2>2, <2>3, <2>4, <3>1
    <3>2. CASE j # 1
      <4>1. j - 1 \in DOMAIN clients
        BY <1>2, <2>4, <3>2
      <4> QED
        BY <1>12, <2>2, <2>3, <2>4, <3>2, <4>1
    <3> QED
      BY <3>1, <3>2
  <2>5. y = [j \in DOMAIN y |-> y[j]]
    BY <2>3
  <2>6. Unmarked(x) = y
    BY <2>2, <2>3, <2>4, <2>5 DEF Unmarked
  <2> QED
    BY <2>0, <2>1, <2>6
<1> QED
  BY <1>1, <1>3, <1>6, <1>9, <1>11, <1>13, <1>14

LEMMA OwnersImport ==
    ASSUME Known, Owners, LoopImport
    PROVE  Owners'
<1>1. /\ pending # None /\ clients \in Seq(AnyClient)
      /\ UNCHANGED <<got, sent, cgi, backlog, ul>>
  BY DEF LoopImport, LoopEnd, program, Known, Separate
<1>2. PICK k : k = ById(pending) /\ k \in DOMAIN clients /\ clients[k].id = pending
  BY <1>1, ByIdIs DEF LoopImport
<1>3. clients[k].marked /\ clients[k].id # None
  BY <1>1, <1>2 DEF Known, ImportOfClient
<1>4. got[clients[k].id] = 4 /\ clients[k].out # 0
  <2>1. Stage(clients[k], got[clients[k].id])
    BY <1>2, <1>3, OwnerIs DEF StepOf
  <2> QED
    BY <1>3, <2>1 DEF Stage
<1>5. CASE clients' = Unmarked(PageOf(k)) /\ table' = table
  <2>1. clients' = <<ThePage(clients[k])>>
                      \o [clients EXCEPT ![k] = Done(clients[k], "ok")]
    BY <1>1, <1>2, <1>5, UnmarkedIs
  <2>2. Listed(clients, table', ul')
    BY <1>1, <1>5 DEF Owners
  <2> QED
    BY <1>1, <1>2, <1>3, <1>4, <2>1, <2>2, OwnersPage
<1>6. CASE /\ clients' = Unmarked(Bare(k, "ok"))
           /\ table' = Closed(table, {clients[k].out, clients[k].wait})
  <2>1. clients' = [clients EXCEPT ![k] = Done(clients[k], "ok")]
    BY <1>1, <1>2, <1>6, UnmarkedIs
  <2>2. PICK t : t = table
    OBVIOUS
  <2>3. Listed(clients, t, ul')
    BY <1>1, <2>2 DEF Owners
  <2> QED
    BY <1>1, <1>2, <1>3, <1>4, <1>6, <2>1, <2>2, <2>3, OwnersBare
<1> QED
  BY <1>2, <1>5, <1>6 DEF LoopImport

LEMMA OwnersSelect ==
    ASSUME Known, Owners, Select
    PROVE  Owners'
<1>1. PICK t : t = Closed(table, Closing)
  OBVIOUS
<1>2. Owned(Range(clients), table, ul) /\ table \in Tables
  BY DEF Owners, Listed, Known
<1>3. Owned(Range(clients), t, ul')
  <2>1. CASE ulDown
    BY <1>1, <1>2, <2>1, UlClosed DEF Closing, Select
  <2>2. CASE ~ulDown
    <3>1. t = table
      BY <1>1, <1>2, <2>2 DEF Closing, Closed, Tables
    <3> QED
      BY <1>2, <2>2, <3>1 DEF Select
  <2> QED
    BY <2>1, <2>2
<1>4. Listed(clients, t, ul')
  BY <1>3 DEF Owners, Listed
<1>5. UNCHANGED <<got, sent, cgi>> /\ Paced
  BY DEF Select, Owners
<1>6. CASE backlog = {} /\ table' = t /\ UNCHANGED <<backlog, clients>>
  BY <1>4, <1>5, <1>6 DEF Owners, Paced
<1>7. ASSUME NEW i \in backlog, backlog' = backlog \ {i},
             clients' = <<NewClient(i, Lowest(t))>> \o clients,
             table' = Opened(t, Conn(i))
      PROVE  Owners'
  <2>1. i \in Cgis /\ i # None /\ got[i] = 0
    BY <1>5, <1>7 DEF Known, Arrived, Paced
  <2>2. \A d \in Range(clients) : d.id # i
    BY <1>7, <2>1, InRange DEF Known, Arrived, Separate
  <2>3. PICK f : f = Lowest(t)
    OBVIOUS
  <2>4. f \in AnyFd /\ 0 \in AnyFd
    BY <1>3, <2>3, TablesKept DEF Owned, AnyFd
  <2>5. PICK c : c = NewClient(i, f)
    OBVIOUS
  <2>6. /\ c \in AnyClient /\ c.id = i /\ c.fd = f /\ c.out = 0 /\ c.wait = 0
        /\ c.st = "creds" /\ c.marked = FALSE
    BY <2>1, <2>4, <2>5 DEF NewClient, AnyClient, ClientStates, Reading
  <2>7. PICK cs, ds, u, t2 : cs = clients /\ ds = clients' /\ u = ul' /\ t2 = table'
    OBVIOUS
  <2>8. Listed(ds, t2, u) /\ Range(ds) = Range(cs) \cup {c}
    <3>1. PICK d \in AnyClient : d = c
      BY <2>6
    <3>2. Accepted(d, cs, i, t)
      BY <2>1, <2>2, <2>3, <2>6, <2>7, <3>1 DEF Accepted
    <3>3. ds = <<d>> \o cs /\ t2 = Opened(t, Conn(i))
      BY <1>7, <2>3, <2>5, <2>7, <3>1
    <3>4. Listed(cs, t, u)
      BY <1>4, <2>7
    <3>5. Joined(ds, cs, d, t2, u)
      BY <3>2, <3>3, <3>4, ListAccepted
    <3> QED
      BY <3>1, <3>5 DEF Joined
  <2>9. StepOf(c, got)
    BY <2>1, <2>6 DEF StepOf, Stage
  <2>10. \A d \in Range(clients') : StepOf(d, got')
    BY <1>5, <2>7, <2>8, <2>9 DEF Paced
  <2> QED
    BY <1>5, <1>7, <2>7, <2>8, <2>10 DEF Owners, Paced
<1> QED
  BY <1>1, <1>6, <1>7 DEF Select

-----------------------------------------------------------------------------
(* All steps                                                               *)

LEMMA OwnersInit == Init => Owners
<1> SUFFICES ASSUME Init PROVE Owners
  OBVIOUS
<1>1. clients = <<>> /\ Range(clients) = {} /\ ul = 0
  BY DEF Init, Range
<1>2. table \in Tables /\ Single(table) /\ \A f \in Fds : table[f] = None
  BY DEF Init, Tables, Single
<1>3. Owned({}, table, 0)
  BY <1>2 DEF Owned, Alone
<1>4. Listed(clients, table, ul)
  <2>1. DOMAIN clients = {} /\ clients \in Seq(AnyClient)
    BY <1>1
  <2>2. IsInjective(clients)
    BY <2>1 DEF IsInjective
  <2>3. Owned(Range(clients), table, ul)
    BY <1>1, <1>3
  <2> QED
    BY <2>1, <2>2, <2>3 DEF Listed
<1>5. Paced
  BY <1>1 DEF Init, Paced, Calls
<1> QED
  BY <1>4, <1>5 DEF Owners

LEMMA OwnersStop ==
    ASSUME Known, Owners, Stop
    PROVE  Owners'
<1>1. clients' = <<>> /\ Range(clients') = {} /\ ul' = 0 /\ backlog' = {}
      /\ UNCHANGED <<got, sent, cgi>>
  BY DEF Stop, Range
<1>2. table' \in Tables /\ Single(table') /\ \A f \in Fds : table'[f] = None
  BY DEF Stop, Tables, Single
<1>3. Owned({}, table', 0)
  BY <1>2 DEF Owned, Alone
<1>4. Listed(clients', table', ul')
  <2>1. DOMAIN clients' = {} /\ clients' \in Seq(AnyClient)
    BY <1>1
  <2>2. IsInjective(clients')
    BY <2>1 DEF IsInjective
  <2>3. Owned(Range(clients'), table', ul')
    BY <1>1, <1>3
  <2> QED
    BY <2>1, <2>2, <2>3 DEF Listed
<1> QED
  BY <1>1, <1>4 DEF Owners, Paced

LEMMA OwnersSend ==
    ASSUME Known, Owners, NEW i \in Cgis, Send(i)
    PROVE  Owners'
<1>1. Paced /\ UNCHANGED <<clients, table, ul, got, cgi, backlog>>
  BY DEF Send, Owners
<1>2. PICK m : m = CHOOSE n \in Calls : n > sent[i] /\ \A l \in Calls : l > sent[i] => n <= l
  OBVIOUS
<1>3. sent[i] \in Calls /\ sent[i] < 4 /\ cgi[i] = "asks"
  BY <1>1 DEF Send, Script, Paced
<1>4. \E n \in Calls : n > sent[i] /\ \A l \in Calls : l > sent[i] => n <= l
  <2>1. CASE sent[i] = 0
    <3>1. 3 \in Calls /\ 3 > sent[i] /\ \A l \in Calls : l > sent[i] => 3 <= l
      BY <2>1 DEF Calls
    <3> QED
      BY <3>1
  <2>2. CASE sent[i] = 3
    <3>1. 4 \in Calls /\ 4 > sent[i] /\ \A l \in Calls : l > sent[i] => 4 <= l
      BY <2>2 DEF Calls
    <3> QED
      BY <3>1
  <2> QED
    BY <1>3, <2>1, <2>2 DEF Calls
<1>5. m \in Calls /\ m > sent[i]
  BY <1>2, <1>4
<1>6. sent' = [sent EXCEPT ![i] = m]
  BY <1>2 DEF Send
<1>7. /\ sent' \in [Cgis -> Calls] /\ sent'[i] = m
      /\ \A j \in Cgis : j # i => sent'[j] = sent[j]
  BY <1>1, <1>5, <1>6 DEF Paced
<1>8. \A j \in Cgis : got[j] <= sent'[j]
  <2>1. got[i] \in 0 .. 4 /\ got[i] <= sent[i] /\ sent[i] \in Nat /\ m \in Nat
    BY <1>1, <1>3, <1>5 DEF Paced, Calls
  <2> QED
    BY <1>1, <1>5, <1>7, <2>1 DEF Paced
<1>9. \A j \in Cgis : cgi[j] = "idle" => sent'[j] = 0
  BY <1>1, <1>3, <1>7 DEF Paced
<1> QED
  BY <1>1, <1>7, <1>8, <1>9 DEF Owners, Paced

LEMMA OwnersNext == Known /\ Owners /\ [Next]_vars => Owners'
<1> SUFFICES ASSUME Known, Owners, [Next]_vars PROVE Owners'
  OBVIOUS
<1>1. ASSUME UNCHANGED <<clients, table, ul, got, sent, cgi, backlog>> PROVE Owners'
  BY <1>1 DEF Owners, Paced
<1>2. CASE LoopRead \/ LoopAbandon
  BY <1>1, <1>2 DEF LoopRead, LoopAbandon, LoopEnd, program
<1>3. CASE LoopImport
  BY <1>3, OwnersImport
<1>4. CASE Select
  BY <1>4, OwnersSelect
<1>5. ASSUME NEW k \in DOMAIN clients, Command(clients[k]) PROVE Owners'
  BY <1>5, OwnersCommand
<1>6. ASSUME NEW k \in DOMAIN clients, NEW i \in Cgis, InOut(clients[k], i)
      PROVE  Owners'
  BY <1>6, OwnersInOut
<1>7. CASE Delete \/ DeleteMarked \/ DeleteForgotten
  BY <1>7, OwnersDisconnect DEF Delete, DeleteMarked, DeleteForgotten
<1>8. CASE Stop
  BY <1>8, OwnersStop
<1>9. ASSUME NEW i \in Cgis, NEW r \in Requests, Connect(i, r) PROVE Owners'
  <2>1. /\ cgi[i] = "idle" /\ cgi' = [cgi EXCEPT ![i] = "asks"]
        /\ backlog' = backlog \cup {i} /\ UNCHANGED <<clients, table, ul, got, sent>>
    BY <1>9 DEF Connect
  <2>2. \A j \in Cgis : cgi'[j] = "idle" => cgi[j] = "idle"
    BY <2>1 DEF Known
  <2>3. got[i] = 0
    BY <2>1 DEF Owners, Paced
  <2> QED
    BY <2>1, <2>2, <2>3 DEF Owners, Paced
<1>10. ASSUME NEW i \in Cgis, Send(i) PROVE Owners'
  BY <1>10, OwnersSend
<1>11. ASSUME NEW i \in Cgis, Fail(i) \/ Succeed(i) \/ Kill(i) PROVE Owners'
  <2>1. PICK st \in {"failed", "ok", "killed"} : cgi' = [cgi EXCEPT ![i] = st]
    BY <1>11 DEF Fail, Succeed, Kill
  <2>2. UNCHANGED <<clients, table, ul, got, sent, backlog>>
    BY <1>11 DEF Fail, Succeed, Kill
  <2>3. \A j \in Cgis : cgi'[j] = "idle" => cgi[j] = "idle"
    BY <2>1 DEF Known
  <2> QED
    BY <2>2, <2>3 DEF Owners, Paced
<1>12. CASE UlDown
  BY <1>1, <1>12 DEF UlDown, program
<1>13. CASE UNCHANGED vars
  BY <1>1, <1>13 DEF vars, program
<1> QED
  BY <1>2, <1>3, <1>4, <1>5, <1>6, <1>7, <1>8, <1>9, <1>10, <1>11, <1>12, <1>13
     DEF Next, Server, Program

LEMMA OwnersHold == Spec => [](Known /\ Owners)
<1>1. Init => Known /\ Owners
  BY KnownInit, OwnersInit
<1>2. Known /\ Owners /\ [Next]_vars => (Known /\ Owners)'
  BY KnownNext, OwnersNext
<1> QED
  BY <1>1, <1>2, PTL DEF Spec

\* Slots, by the field
Field(c, x) == IF x = "fd" THEN c.fd ELSE IF x = "out" THEN c.out ELSE c.wait

Names == {"fd", "out", "wait"}

LEMMA FieldsApart ==
    ASSUME NEW c, NEW t, Sound(c, t), NEW x \in Names, NEW y \in Names,
           Field(c, x) = Field(c, y), Field(c, x) # 0
    PROVE  x = y
<1>1. \A i, j : Conn(i) # Out(j) /\ Conn(i) # Wait(j) /\ Out(i) # Wait(j)
  BY ObjectsDiffer
<1> QED
  BY <1>1 DEF Sound, Field, Names

LEMMA OwnersCounted == Known /\ Owners => DescriptorsOwned
<1> SUFFICES ASSUME Known, Owners, NEW f \in Fds
             PROVE  Cardinality(Slots(f)) = IF table[f] = None THEN 0 ELSE 1
  BY DEF DescriptorsOwned
<1>1. /\ Owned(Range(clients), table, ul) /\ clients \in Seq(AnyClient)
      /\ IsInjective(clients)
  BY DEF Owners, Listed
<1>2. PICK P : P = {s \in (DOMAIN clients) \X Names : clients[s[1]][s[2]] = f}
  OBVIOUS
<1>3. Slots(f) = P \cup (IF ul = f THEN {UserList} ELSE {})
  BY <1>2 DEF Slots, Names
<1>4. ASSUME NEW k \in DOMAIN clients, NEW x \in Names
      PROVE  clients[k][x] = Field(clients[k], x)
  BY <1>4 DEF Field, Names
<1>5. f # 0
  BY FdsNotZero
<1>6. \A k \in DOMAIN clients : clients[k] \in Range(clients)
  BY <1>1, InRange
<1>7. ASSUME NEW k \in DOMAIN clients, NEW x \in Names, clients[k][x] = f
      PROVE  f \in Numbers(clients[k])
  BY <1>4, <1>5, <1>7 DEF Numbers, Field, Names
<1>8. ASSUME NEW s \in P
      PROVE  /\ table[f] # None /\ f # ul
             /\ \A r \in P : r = s
  <2>1. PICK k \in DOMAIN clients, x \in Names : s = <<k, x>> /\ clients[k][x] = f
    BY <1>2, <1>8
  <2>2. f \in Numbers(clients[k]) /\ clients[k] \in Range(clients)
    BY <1>6, <1>7, <2>1
  <2>3. /\ table[f] # None /\ f # ul
        /\ \A d \in Range(clients) : f \in Numbers(d) => d = clients[k]
    BY <1>1, <2>2, Apart
  <2>4. ASSUME NEW r \in P PROVE r = s
    <3>1. PICK j \in DOMAIN clients, y \in Names : r = <<j, y>> /\ clients[j][y] = f
      BY <1>2, <2>4
    <3>2. clients[j] = clients[k]
      BY <1>6, <1>7, <2>3, <3>1
    <3>3. j = k
      BY <1>1, <3>2 DEF IsInjective
    <3>4. Field(clients[k], x) = f /\ Field(clients[k], y) = f
      BY <1>4, <2>1, <3>1, <3>3
    <3>5. Sound(clients[k], table)
      BY <1>1, <2>2 DEF Owned
    <3>6. x = y
      BY <1>5, <3>4, <3>5, FieldsApart
    <3> QED
      BY <2>1, <3>1, <3>3, <3>6
  <2> QED
    BY <2>3, <2>4
<1>9. CASE table[f] = None
  <2>1. P = {}
    BY <1>8, <1>9
  <2>2. ul # f
    BY <1>1, <1>5, <1>9, ObjectsDiffer DEF Owned
  <2>3. Slots(f) = {}
    BY <1>3, <2>1, <2>2
  <2> QED
    BY <1>9, <2>3, FS_EmptySet
<1>10. CASE table[f] # None
  <2>1. \E s : Slots(f) = {s}
    <3>1. CASE f = ul
      <4>1. P = {}
        BY <1>8, <3>1
      <4> QED
        BY <1>3, <3>1, <4>1
    <3>2. CASE f # ul
      <4>1. PICK c \in Range(clients) : f \in Numbers(c)
        BY <1>1, <1>10, <3>2 DEF Owned
      <4>2. PICK k \in DOMAIN clients : c = clients[k]
        BY <1>1, InRange
      <4>3. PICK x \in Names : Field(c, x) = f
        BY <4>1 DEF Numbers, Field, Names
      <4>4. <<k, x>> \in P
        BY <1>2, <1>4, <4>2, <4>3
      <4>5. P = {<<k, x>>}
        BY <1>8, <4>4
      <4> QED
        BY <1>3, <3>2, <4>5
    <3> QED
      BY <3>1, <3>2
  <2> QED
    BY <1>10, <2>1, FS_Singleton
<1> QED
  BY <1>9, <1>10

-----------------------------------------------------------------------------
(* Replies and pages                                                       *)

\* A reply is for the client, a page that is written is in the output, and a
\* client with nothing to do has its reply.
Fit(c, g, a, o) ==
    /\ c.st = "write" => c.text \in {"ok", "error"}
    /\ c.id = None /\ c.st = "disconnect" => o[c.text] = c.text
    /\ c.id # None /\ c.st = "packet" /\ g[c.id] = 4 /\ ~c.marked =>
          a[c.id] \in {"ok", "error"}

RepliedOk(i) ==
    \/ answer[i] = "ok" \/ cgi[i] = "ok"
    \/ \E c \in Range(clients) : c.id = i /\ c.st = "write" /\ c.text = "ok"

PageOn(i) ==
    \E c \in Range(clients) : c.id = None /\ c.text = i /\ c.st = "writeclose"

Promise(i) ==
    /\ RepliedOk(i) =>
          /\ request[i] = "submit" => output[i] = i \/ i \in cut \/ PageOn(i)
          /\ request[i] = "import" => i \in imported
    /\ cgi[i] = "ok" /\ request[i] = "submit" => output[i] = i \/ i \in cut

Answers == [Cgis -> {None, "ok", "error"}]

Served ==
    /\ answer \in Answers
    /\ DOMAIN output = Cgis /\ \A i \in Cgis : output[i] \in {i, None}
    /\ DOMAIN request = Cgis
    /\ \A i \in Cgis : cgi[i] = "idle" => answer[i] = None
    /\ pending # None => request[pending] = "import"
    /\ \A c \in Range(clients) : Fit(c, got, answer, output)
    /\ phase = "select" => \A c \in Range(clients) : c.st \notin {"ready", "disconnect"}
    /\ \A i \in Cgis : Promise(i)

LEMMA PromiseKept ==
    ASSUME NEW i \in Cgis, Promise(i), RepliedOk(i)' => RepliedOk(i),
           request'[i] = request[i], output[i] = i => output'[i] = i,
           cgi'[i] = "ok" => cgi[i] = "ok", i \in cut => i \in cut', i \in imported => i \in imported',
           PageOn(i) => PageOn(i)' \/ output'[i] = i \/ i \in cut'
    PROVE  Promise(i)'
BY DEF Promise

\* Nobody's client changes.
LEMMA ServedSame ==
    ASSUME Served, phase' = phase \/ phase' = "pass",
           UNCHANGED <<clients, got, answer, output, request, cgi, cut>>,
           imported' = imported, pending' = pending \/ pending' = None
    PROVE  Served'
BY DEF Served, Promise, RepliedOk, PageOn

\* Client k becomes c.
LEMMA SwapRange ==
    ASSUME Known, Owners, NEW k \in DOMAIN clients, NEW c,
           c.fd = clients[k].fd, clients' = [clients EXCEPT ![k] = c]
    PROVE  Range(clients') = (Range(clients) \ {clients[k]}) \cup {c}
<1>1. PICK p : p = clients[k]
  OBVIOUS
<1>2. /\ p \in Range(clients) /\ Sound(p, table)
      /\ Owned(Range(clients), table, ul) /\ IsInjective(clients)
      /\ clients \in Seq(AnyClient)
  BY <1>1, OwnerIs DEF Owners, Listed
<1>3. c \notin Range(clients) \ {p}
  <2>1. p.fd \in Numbers(p) /\ c.fd \in Numbers(c) /\ c.fd = p.fd
    BY <1>1, <1>2, FdsNotZero DEF Numbers, Sound
  <2> QED
    BY <1>2, <2>1, Apart
<1>4. InsteadOf(clients', clients, k, c)
  BY <1>1, <1>3 DEF InsteadOf
<1> QED
  BY <1>1, <1>2, <1>4, ChangedRange

Moved(c, p, st, M, N) ==
    /\ c.st = st /\ c.id = p.id /\ c.text = p.text /\ c.marked = p.marked
    /\ N = (M \ {p}) \cup {c}

LEMMA MoveRange ==
    ASSUME Known, Owners, NEW k \in DOMAIN clients, NEW st,
           clients' = [clients EXCEPT ![k].st = st]
    PROVE  \E c : Moved(c, clients[k], st, Range(clients), Range(clients'))
<1>1. PICK p : p = clients[k] /\ p \in AnyClient
  BY OwnerIs
<1>2. PICK c : c = [p EXCEPT !.st = st]
  OBVIOUS
<1>3. /\ c.fd = p.fd /\ c.id = p.id /\ c.text = p.text /\ c.marked = p.marked
      /\ c.st = st
  BY <1>1, <1>2 DEF AnyClient
<1>4. clients' = [clients EXCEPT ![k] = c]
  BY <1>1, <1>2
<1>5. Range(clients') = (Range(clients) \ {clients[k]}) \cup {c}
  BY <1>1, <1>3, <1>4, SwapRange
<1> QED
  BY <1>1, <1>3, <1>5 DEF Moved

\* What the others keep
LEMMA OthersFit ==
    ASSUME NEW c, Fit(c, got, answer, output), c.id \in Cgis \cup {None},
           NEW g, NEW a, NEW o,
           c.id # None => g[c.id] = got[c.id] /\ a[c.id] = answer[c.id],
           c.id = None => o[c.text] = output[c.text] \/ o[c.text] = c.text
    PROVE  Fit(c, g, a, o)
BY DEF Fit

LEMMA ServedInOut ==
    ASSUME Known, Owners, Served, NEW k \in DOMAIN clients, NEW i \in Cgis,
           InOut(clients[k], i)
    PROVE  Served'
<1>1. PICK r : r = Ready /\ r \in DOMAIN clients /\ clients[k] = clients[r]
  BY ReadyIs DEF InOut, Read, ReadNothing, WriteReply, WritePage, Io, Known,
     Separate
<1>2. PICK p : p = clients[r]
  OBVIOUS
<1>3. /\ p \in Range(clients) /\ p \in AnyClient /\ Sound(p, table)
      /\ StepOf(p, got)
  BY <1>1, <1>2, OwnerIs
<1>4. /\ UNCHANGED <<cgi, request, cut, imported, pending, phase>> /\ phase = "pass"
      /\ InOut(p, i)
  BY <1>1, <1>2 DEF InOut, Read, ReadNothing, WriteReply, WritePage, Io, program, contest
<1>5. table[p.fd] = Conn(i) => p.id = i /\ p.id # None
  BY <1>3, ObjectsDiffer DEF Sound
<1>6. table[p.fd] = Out(i) => p.id = None /\ p.text = i
  BY <1>3, ObjectsDiffer DEF Sound
<1>7. Alone(Range(clients)) /\ \A d \in Range(clients) : Sound(d, table)
  BY DEF Owners, Listed, Owned
<1>8. CASE Read(p, i)
  <2>1. /\ p.id = i /\ p.id # None /\ UNCHANGED <<answer, output>>
        /\ got[i] < sent[i] /\ got' = [got EXCEPT ![i] = @ + 1] /\ p.st \in Reading
    BY <1>5, <1>8 DEF Read
  <2>2. /\ \A j \in Cgis : j # i => got'[j] = got[j]
        /\ got'[i] = got[i] + 1 /\ got[i] \in 0 .. 4
    BY <2>1 DEF Owners, Paced
  <2>3. Stage(p, got[i])
    BY <1>3, <2>1 DEF StepOf
  <2>4. PICK c : /\ c.id = i /\ c.st \in {"packet", "ready"}
                 /\ c.st = "packet" => p.st # "packet"
                 /\ Range(clients') = (Range(clients) \ {p}) \cup {c}
    <3>1. ASSUME NEW st \in {"packet", "ready"}, Moves(st), st = "packet" => p.st # "packet"
          PROVE  \E c : /\ c.id = i /\ c.st \in {"packet", "ready"}
                        /\ c.st = "packet" => p.st # "packet"
                        /\ Range(clients') = (Range(clients) \ {p}) \cup {c}
      <4>1. clients' = [clients EXCEPT ![r].st = st]
        BY <1>1, <3>1 DEF Moves
      <4>2. PICK c : Moved(c, clients[r], st, Range(clients), Range(clients'))
        BY <1>1, <4>1, MoveRange
      <4> QED
        BY <1>2, <2>1, <3>1, <4>2 DEF Moved
    <3>2. CASE /\ p.st = "fds"
               /\ \E f, g : clients' = [clients EXCEPT ![r] =
                      [p EXCEPT !.st = "packet", !.out = f, !.wait = g]]
      <4>1. PICK f, g : clients' = [clients EXCEPT ![r] =
                      [p EXCEPT !.st = "packet", !.out = f, !.wait = g]]
        BY <3>2
      <4>2. PICK c : c = [p EXCEPT !.st = "packet", !.out = f, !.wait = g]
        OBVIOUS
      <4>3. c.fd = p.fd /\ c.id = p.id /\ c.st = "packet"
        BY <1>3, <4>2 DEF AnyClient
      <4>4. clients' = [clients EXCEPT ![r] = c]
        BY <4>1, <4>2
      <4>5. Range(clients') = (Range(clients) \ {p}) \cup {c}
        BY <1>1, <1>2, <4>3, <4>4, SwapRange
      <4> QED
        BY <2>1, <3>2, <4>3, <4>5
    <3>3. CASE p.st = "creds" /\ Moves("packet")
      BY <3>1, <3>3
    <3>4. CASE p.st = "packet" /\ Moves("ready")
      BY <3>1, <3>4
    <3> QED
      BY <1>1, <1>8, <3>2, <3>3, <3>4 DEF Read
  <2>5. Fit(c, got', answer', output')
    <3>1. c.st = "packet" => got'[i] # 4
      BY <2>1, <2>2, <2>3, <2>4 DEF Stage, Reading
    <3> QED
      BY <2>1, <2>4, <3>1 DEF Fit
  <2>6. ASSUME NEW d \in Range(clients), d # p PROVE Fit(d, got', answer', output')
    <3>1. d.id # i /\ d.id \in Cgis \cup {None}
      BY <1>3, <1>7, <2>1, <2>6 DEF Alone, Sound
    <3>2. Fit(d, got, answer, output)
      BY <2>6 DEF Served
    <3> QED
      BY <2>1, <2>2, <3>1, <3>2, OthersFit
  <2>7. ASSUME NEW j \in Cgis PROVE Promise(j)'
    <3>1. RepliedOk(j)' => RepliedOk(j)
      BY <1>4, <2>1, <2>4 DEF RepliedOk
    <3>2. PageOn(j) => PageOn(j)'
      BY <2>1, <2>4 DEF PageOn
    <3>3. Promise(j)
      BY <2>7 DEF Served
    <3> QED
      BY <1>4, <2>1, <3>1, <3>2, <3>3, PromiseKept
  <2>8. \A d \in Range(clients') : Fit(d, got', answer', output')
    BY <2>4, <2>5, <2>6
  <2> QED
    BY <1>4, <2>1, <2>7, <2>8 DEF Served
<1>9. CASE ReadNothing(p, i)
  <2>1. p.id = i /\ p.id # None /\ UNCHANGED <<answer, output, got>>
    BY <1>5, <1>9 DEF ReadNothing
  <2>2. CASE UNCHANGED clients
    BY <1>4, <2>1, <2>2, ServedSame
  <2>3. CASE Moves("disconnect")
    <3>1. clients' = [clients EXCEPT ![r].st = "disconnect"]
      BY <1>1, <2>3 DEF Moves
    <3>a. PICK c : Moved(c, clients[r], "disconnect", Range(clients), Range(clients'))
      BY <1>1, <3>1, MoveRange
    <3>2. /\ c.st = "disconnect" /\ c.id = p.id
          /\ Range(clients') = (Range(clients) \ {p}) \cup {c}
      BY <1>2, <3>a DEF Moved
    <3>3. \A d \in Range(clients') : Fit(d, got', answer', output')
      BY <2>1, <3>2 DEF Served, Fit
    <3>4. ASSUME NEW j \in Cgis PROVE Promise(j)'
      <4>1. RepliedOk(j)' => RepliedOk(j)
        BY <1>4, <2>1, <3>2 DEF RepliedOk
      <4>2. PageOn(j) => PageOn(j)'
        BY <2>1, <3>2 DEF PageOn
      <4>3. Promise(j)
        BY <3>4 DEF Served
      <4> QED
        BY <1>4, <2>1, <4>1, <4>2, <4>3, PromiseKept
    <3> QED
      BY <1>4, <2>1, <3>3, <3>4 DEF Served
  <2> QED
    BY <1>9, <2>2, <2>3 DEF ReadNothing
<1>10. CASE WriteReply(p, i)
  <2>1. p.id = i /\ p.id # None /\ p.st = "write" /\ UNCHANGED <<output, got>>
    BY <1>5, <1>10 DEF WriteReply
  <2>2. p.text \in {"ok", "error"}
    BY <1>3, <2>1 DEF Served, Fit
  <2>3. \/ Moves("disconnect") /\ answer' = answer
        \/ Moves("packet") /\ answer' = [answer EXCEPT ![i] = p.text]
    BY <1>10 DEF WriteReply
  <2>4. PICK c : /\ c.st \in {"disconnect", "packet"} /\ c.id = p.id
                 /\ c.st = "disconnect" => answer' = answer
                 /\ c.st = "packet" => answer' = [answer EXCEPT ![i] = p.text]
                 /\ Range(clients') = (Range(clients) \ {p}) \cup {c}
    <3>1. ASSUME NEW st, clients' = [clients EXCEPT ![r].st = st]
          PROVE  \E c : /\ c.st = st /\ c.id = p.id
                        /\ Range(clients') = (Range(clients) \ {p}) \cup {c}
      <4>1. PICK c : Moved(c, clients[r], st, Range(clients), Range(clients'))
        BY <1>1, <3>1, MoveRange
      <4> QED
        BY <1>2, <4>1 DEF Moved
    <3> QED
      BY <1>1, <2>3, <3>1 DEF Moves
  <2>5. /\ answer' \in Answers /\ answer'[i] \in {answer[i], p.text}
        /\ \A j \in Cgis : j # i => answer'[j] = answer[j]
        /\ c.st = "packet" => answer'[i] = p.text
    BY <2>2, <2>4 DEF Served, Answers
  <2>6. Fit(c, got', answer', output')
    BY <2>1, <2>2, <2>4, <2>5 DEF Fit
  <2>7. ASSUME NEW d \in Range(clients), d # p PROVE Fit(d, got', answer', output')
    <3>1. d.id # i /\ d.id \in Cgis \cup {None}
      BY <1>3, <1>7, <2>1, <2>7 DEF Alone, Sound
    <3>2. Fit(d, got, answer, output)
      BY <2>7 DEF Served
    <3> QED
      BY <2>1, <2>5, <3>1, <3>2, OthersFit
  <2>8. ASSUME NEW j \in Cgis PROVE Promise(j)'
    <3>1. RepliedOk(j)' => RepliedOk(j)
      BY <1>3, <1>4, <2>1, <2>4, <2>5 DEF RepliedOk
    <3>2. PageOn(j) => PageOn(j)'
      BY <2>1, <2>4 DEF PageOn
    <3>3. Promise(j)
      BY <2>8 DEF Served
    <3> QED
      BY <1>4, <2>1, <3>1, <3>2, <3>3, PromiseKept
  <2>9. cgi[i] # "idle"
    BY <1>2, <1>1, <2>1 DEF Known, Arrived
  <2>10. \A j \in Cgis : cgi'[j] = "idle" => answer'[j] = None
    BY <1>4, <2>5, <2>9 DEF Served
  <2>11. \A d \in Range(clients') : Fit(d, got', answer', output')
    BY <2>4, <2>6, <2>7
  <2> QED
    BY <1>4, <2>1, <2>5, <2>8, <2>10, <2>11 DEF Served
<1>11. CASE WritePage(p, i)
  <2>1. /\ p.id = None /\ p.text = i /\ UNCHANGED <<answer, got>>
        /\ output' = [output EXCEPT ![i] = i] /\ Moves("disconnect")
    BY <1>6, <1>11 DEF WritePage
  <2>2. clients' = [clients EXCEPT ![r].st = "disconnect"]
    BY <1>1, <2>1 DEF Moves
  <2>a. PICK c : Moved(c, clients[r], "disconnect", Range(clients), Range(clients'))
    BY <1>1, <2>2, MoveRange
  <2>3. /\ c.st = "disconnect" /\ c.id = None /\ c.text = i
        /\ Range(clients') = (Range(clients) \ {p}) \cup {c}
    BY <1>2, <2>1, <2>a DEF Moved
  <2>4. output'[i] = i /\ DOMAIN output' = Cgis
        /\ \A j \in Cgis : j # i => output'[j] = output[j]
    BY <2>1 DEF Served
  <2>5. Fit(c, got', answer', output')
    BY <2>3, <2>4 DEF Fit
  <2>6. ASSUME NEW d \in Range(clients), d # p PROVE Fit(d, got', answer', output')
    <3>1. Fit(d, got, answer, output)
      BY <2>6 DEF Served
    <3>2. d.id = None => d.text \in Cgis
      BY <1>7, <2>6 DEF Sound
    <3>3. d.id \in Cgis \cup {None}
      BY <1>7, <2>6 DEF Sound
    <3> QED
      BY <2>1, <2>4, <3>1, <3>2, <3>3, OthersFit
  <2>7. ASSUME NEW j \in Cgis PROVE Promise(j)'
    <3>1. RepliedOk(j)' => RepliedOk(j)
      BY <1>4, <2>1, <2>3, ConnectionsAssumption DEF RepliedOk
    <3>2. PageOn(j) => PageOn(j)' \/ output'[j] = j
      BY <2>1, <2>3, <2>4 DEF PageOn
    <3>3. Promise(j) /\ (output[j] = j => output'[j] = j)
      BY <2>4, <2>7 DEF Served
    <3> QED
      BY <1>4, <3>1, <3>2, <3>3, PromiseKept
  <2>8. \A d \in Range(clients') : Fit(d, got', answer', output')
    BY <2>3, <2>5, <2>6
  <2> QED
    BY <1>4, <2>1, <2>4, <2>7, <2>8 DEF Served
<1> QED
  BY <1>4, <1>8, <1>9, <1>10, <1>11 DEF InOut

\* The reply r of p is on its way, with a page or without.
Answered(p, r, M, N) ==
    \E c, Q : /\ c.id = p.id /\ c.st = "write" /\ c.text = r
              /\ \A q \in Q : q.id = None /\ q.text = p.id /\ q.st = "writeclose"
              /\ N = (M \ {p}) \cup {c} \cup Q

AnsweredPage(p, M, N) ==
    \E c, q : /\ c.id = p.id /\ c.st = "write" /\ c.text = "ok"
              /\ q.id = None /\ q.text = p.id /\ q.st = "writeclose"
              /\ N = (M \ {p}) \cup {c} \cup {q}

LEMMA DoneText ==
    ASSUME NEW p \in AnyClient, NEW r
    PROVE  Done(p, r).text = r
BY DEF Done, Replied, WithoutFds, AnyClient

LEMMA BareRange ==
    ASSUME Known, Owners, NEW k \in DOMAIN clients, clients[k].id # None,
           NEW r \in {"ok", "error"},
           clients' = [clients EXCEPT ![k] = Done(clients[k], r)]
    PROVE  Answered(clients[k], r, Range(clients), Range(clients'))
<1>1. PICK p : p = clients[k] /\ p \in AnyClient
  BY OwnerIs
<1>2. PICK c : c = Done(p, r)
  OBVIOUS
<1>3. c.id = p.id /\ c.fd = p.fd /\ c.st = "write" /\ c.text = r
  <2>1. c.text = r
    BY <1>1, <1>2, DoneText
  <2>2. c.id = p.id /\ c.fd = p.fd /\ c.st = "write"
    BY <1>1, <1>2, DoneIs
  <2> QED
    BY <2>1, <2>2
<1>4. clients' = [clients EXCEPT ![k] = c]
  BY <1>1, <1>2
<1>5. Range(clients') = (Range(clients) \ {p}) \cup {c}
  BY <1>1, <1>3, <1>4, SwapRange
<1>6. Range(clients') = (Range(clients) \ {p}) \cup {c} \cup {}
  BY <1>5
<1> QED
  BY <1>1, <1>3, <1>6 DEF Answered

LEMMA PageRange ==
    ASSUME Known, Owners, NEW k \in DOMAIN clients, clients[k].id # None,
           clients[k].out # 0,
           clients' = <<ThePage(clients[k])>>
                         \o [clients EXCEPT ![k] = Done(clients[k], "ok")]
    PROVE  AnsweredPage(clients[k], Range(clients), Range(clients'))
<1>1. PICK p : p = clients[k] /\ p \in AnyClient
  BY OwnerIs
<1>2. PICK c : c = Done(p, "ok")
  OBVIOUS
<1>3. /\ c \in AnyClient /\ c.id = p.id /\ c.fd = p.fd /\ c.out = 0
      /\ c.wait = 0 /\ c.st = "write" /\ c.text = "ok"
  <2>1. c.text = "ok"
    BY <1>1, <1>2, DoneText
  <2>2. /\ c \in AnyClient /\ c.id = p.id /\ c.fd = p.fd /\ c.out = 0
        /\ c.wait = 0 /\ c.st = "write"
    BY <1>1, <1>2, DoneIs
  <2> QED
    BY <2>1, <2>2
<1>4. PICK q : q = ThePage(p)
  OBVIOUS
<1>5. /\ q \in AnyClient /\ q.id = None /\ q.text = p.id /\ q.fd = p.out
      /\ q.out = 0 /\ q.wait = p.wait /\ q.st = "writeclose"
  BY <1>1, <1>4, ThePageIs
<1>6. clients' = <<q>> \o [clients EXCEPT ![k] = c]
  BY <1>1, <1>2, <1>4
<1>7. Turned(p, c, q)
  BY <1>1, <1>3, <1>5 DEF Turned
<1>8. Swapped(clients', clients, k, {c, q}, table, ul)
  BY <1>1, <1>3, <1>5, <1>6, <1>7, ListPage DEF Owners
<1>9. Range(clients') = (Range(clients) \ {p}) \cup {c} \cup {q}
  BY <1>1, <1>8 DEF Swapped
<1> QED
  BY <1>1, <1>3, <1>5, <1>9 DEF AnsweredPage

\* What replies keep.
Steady ==
    /\ UNCHANGED <<got, answer, output, request, cgi, cut>>
    /\ imported \subseteq imported'
    /\ pending' # None => request[pending'] = "import"

LEMMA ServedAnswer ==
    ASSUME Known, Owners, Served, Steady, NEW p \in Range(clients),
           p.id # None, NEW r \in {"ok", "error"},
           Answered(p, r, Range(clients), Range(clients')),
           phase' = "select" =>
               \A d \in Range(clients) \ {p} : d.st \notin {"ready", "disconnect"},
           r = "ok" => /\ request[p.id] # "submit"
                       /\ request[p.id] = "import" => p.id \in imported'
    PROVE  Served'
<1>1. PICK c, Q : /\ c.id = p.id /\ c.st = "write" /\ c.text = r
                  /\ \A q \in Q : q.id = None /\ q.text = p.id /\ q.st = "writeclose"
                  /\ Range(clients') = (Range(clients) \ {p}) \cup {c} \cup Q
  BY DEF Answered
<1>2. /\ UNCHANGED <<got, answer, output, request, cgi, cut>>
      /\ imported \subseteq imported'
      /\ pending' # None => request[pending'] = "import"
  BY DEF Steady
<1>3. \A d \in Range(clients') : Fit(d, got', answer', output')
  BY <1>1, <1>2 DEF Served, Fit
<1>4. ASSUME NEW j \in Cgis PROVE Promise(j)'
  <2>1. Promise(j)
    BY <1>4 DEF Served
  <2>2. PageOn(j) => PageOn(j)'
    BY <1>1 DEF PageOn
  <2>3. CASE j # p.id \/ r = "error"
    <3>1. RepliedOk(j)' => RepliedOk(j)
      BY <1>1, <1>2, <2>3 DEF RepliedOk
    <3> QED
      BY <1>2, <2>1, <2>2, <3>1, PromiseKept
  <2>4. CASE j = p.id /\ r = "ok"
    BY <1>2, <2>1, <2>4 DEF Promise
  <2> QED
    BY <2>3, <2>4
<1>5. phase' = "select" =>
          \A d \in Range(clients') : d.st \notin {"ready", "disconnect"}
  BY <1>1
<1> QED
  BY <1>2, <1>3, <1>4, <1>5 DEF Served

LEMMA ServedPage ==
    ASSUME Known, Owners, Served, Steady, NEW p \in Range(clients),
           p.id # None, AnsweredPage(p, Range(clients), Range(clients')),
           phase' = "select" =>
               \A d \in Range(clients) \ {p} : d.st \notin {"ready", "disconnect"},
           request[p.id] = "import" => p.id \in imported'
    PROVE  Served'
<1>1. PICK c, q : /\ c.id = p.id /\ c.st = "write" /\ c.text = "ok"
                  /\ q.id = None /\ q.text = p.id /\ q.st = "writeclose"
                  /\ Range(clients') = (Range(clients) \ {p}) \cup {c} \cup {q}
  BY DEF AnsweredPage
<1>2. /\ UNCHANGED <<got, answer, output, request, cgi, cut>>
      /\ imported \subseteq imported'
      /\ pending' # None => request[pending'] = "import"
  BY DEF Steady
<1>3. \A d \in Range(clients') : Fit(d, got', answer', output')
  BY <1>1, <1>2 DEF Served, Fit
<1>4. ASSUME NEW j \in Cgis PROVE Promise(j)'
  <2>1. Promise(j)
    BY <1>4 DEF Served
  <2>2. PageOn(j) => PageOn(j)'
    BY <1>1 DEF PageOn
  <2>3. CASE j # p.id
    <3>1. RepliedOk(j)' => RepliedOk(j)
      BY <1>1, <1>2, <2>3 DEF RepliedOk
    <3> QED
      BY <1>2, <2>1, <2>2, <3>1, PromiseKept
  <2>4. CASE j = p.id
    <3>1. PageOn(j)'
      BY <1>1, <2>4 DEF PageOn
    <3> QED
      BY <1>2, <2>1, <2>4, <3>1 DEF Promise
  <2> QED
    BY <2>3, <2>4
<1>5. phase' = "select" =>
          \A d \in Range(clients') : d.st \notin {"ready", "disconnect"}
  BY <1>1
<1> QED
  BY <1>2, <1>3, <1>4, <1>5 DEF Served

LEMMA ServedMove ==
    ASSUME Known, Owners, Served, Steady, NEW p \in Range(clients),
           p.id # None, phase' = "pass",
           NEW c, c.id = p.id, c.st # "write", Fit(c, got, answer, output),
           Range(clients') = (Range(clients) \ {p}) \cup {c}
    PROVE  Served'
<1>1. /\ UNCHANGED <<got, answer, output, request, cgi, cut>>
      /\ imported \subseteq imported'
      /\ pending' # None => request[pending'] = "import"
  BY DEF Steady
<1>2. \A d \in Range(clients') : Fit(d, got', answer', output')
  BY <1>1 DEF Served
<1>3. ASSUME NEW j \in Cgis PROVE Promise(j)'
  <2>1. Promise(j)
    BY <1>3 DEF Served
  <2>2. PageOn(j) => PageOn(j)'
    BY DEF PageOn
  <2>3. RepliedOk(j)' => RepliedOk(j)
    BY <1>1 DEF RepliedOk
  <2> QED
    BY <1>1, <2>1, <2>2, <2>3, PromiseKept
<1> QED
  BY <1>1, <1>2, <1>3 DEF Served

LEMMA ServedCommand ==
    ASSUME Known, Owners, Served, NEW k \in DOMAIN clients, Command(clients[k])
    PROVE  Served'
<1>1. PICK p : p = clients[k]
  OBVIOUS
<1>2. PICK part \in {"pass", "request"} : Handle(p, part)
  BY <1>1 DEF Command, PassFd, Submit, TestSuspend, TestResume, Suspension, Refuse,
              ImportNow, ImportRefused, ImportWaits, Request
<1>3. PICK a : a = Asking /\ a \in DOMAIN clients /\ p = clients[a] /\ p.st = "ready"
  BY <1>2, AskingIs DEF Handle, Known, Separate
<1>4. /\ p \in Range(clients) /\ p \in AnyClient /\ StepOf(p, got)
  BY <1>3, OwnerIs
<1>5. p.id # None /\ p.id \in Cgis
  <2>1. p.st \notin PageStates
    BY <1>3 DEF PageStates
  <2> QED
    BY <1>3, <2>1, ClientIs
<1>6. Stage(p, got[p.id]) /\ ~p.marked
  BY <1>3, <1>4, <1>5 DEF StepOf, Stage
<1>7. /\ UNCHANGED <<got, answer, output, request, cgi, cut, phase>>
      /\ phase = "pass"
  BY <1>2 DEF Handle, program
<1>8. Script[2] = "pass" /\ Script[4] = "request"
  BY DEF Script
<1>9. ASSUME NEW r, Request(p, r)
      PROVE  got[p.id] = 4 /\ p.out # 0 /\ request[p.id] = r
  BY <1>3, <1>6, <1>8, <1>9 DEF Request, Handle, Stage
<1>10. ASSUME NEW r, Request(p, r), ReplyPage, Steady,
              r = "import" => p.id \in imported'
       PROVE  Served'
  <2>1. clients' = <<ThePage(clients[a])>>
                      \o [clients EXCEPT ![a] = Done(clients[a], "ok")]
    BY <1>3, <1>6, <1>10, ReplyIs DEF ReplyPage
  <2>2. AnsweredPage(clients[a], Range(clients), Range(clients'))
    BY <1>3, <1>5, <1>9, <1>10, <2>1, PageRange
  <2> QED
    BY <1>3, <1>4, <1>5, <1>7, <1>9, <1>10, <2>2, ServedPage
<1>11. ASSUME NEW r, Request(p, r), NEW x \in {"ok", "error"}, ReplyBare(x), Steady,
              x = "ok" => r # "submit" /\ (r = "import" => p.id \in imported')
       PROVE  Served'
  <2>1. clients' = [clients EXCEPT ![a] = Done(clients[a], x)]
    BY <1>3, <1>6, <1>11, ReplyIs DEF ReplyBare
  <2>2. Answered(clients[a], x, Range(clients), Range(clients'))
    BY <1>3, <1>5, <1>11, <2>1, BareRange
  <2> QED
    BY <1>3, <1>4, <1>5, <1>7, <1>9, <1>11, <2>2, ServedAnswer
<1>12. UNCHANGED <<pending, imported>> => Steady
  BY <1>7 DEF Steady, Served
<1>13. CASE PassFd(p)
  <2>1. clients' = [clients EXCEPT ![a].st = "fds"] /\ UNCHANGED <<pending, imported>>
    BY <1>3, <1>13 DEF PassFd, contest
  <2>2. PICK c : Moved(c, clients[a], "fds", Range(clients), Range(clients'))
    BY <1>3, <2>1, MoveRange
  <2>3. /\ c.id = p.id /\ c.st = "fds"
        /\ Range(clients') = (Range(clients) \ {p}) \cup {c}
    BY <1>3, <2>2 DEF Moved
  <2>4. Fit(c, got, answer, output)
    BY <2>3 DEF Fit
  <2> QED
    BY <1>4, <1>5, <1>7, <1>12, <2>1, <2>3, <2>4, ServedMove
<1>14. CASE Submit(p)
  <2>1. Request(p, "submit") /\ ReplyPage /\ UNCHANGED <<pending, imported>>
    BY <1>14 DEF Submit
  <2>2. PICK r : r = "submit"
    OBVIOUS
  <2>3. /\ Request(p, r) /\ ReplyPage /\ Steady
        /\ r = "import" => p.id \in imported'
    BY <1>12, <2>1, <2>2
  <2> QED
    BY <1>10, <2>3
<1>15. CASE TestSuspend(p) \/ TestResume(p)
  <2>1. Request(p, "order") /\ ReplyBare("ok") /\ UNCHANGED <<pending, imported>>
    BY <1>15 DEF TestSuspend, TestResume, Suspension
  <2>2. PICK r, x : r = "order" /\ x = "ok"
    OBVIOUS
  <2>3. /\ Request(p, r) /\ x \in {"ok", "error"} /\ ReplyBare(x) /\ Steady
        /\ x = "ok" => r # "submit" /\ (r = "import" => p.id \in imported')
    BY <1>12, <2>1, <2>2
  <2> QED
    BY <1>11, <2>3
<1>16. ASSUME NEW r \in Requests, Refuse(p, r) PROVE Served'
  BY <1>11, <1>12, <1>16 DEF Refuse, contest
<1>17. CASE ImportNow(p)
  <2>1. Steady /\ p.id \in imported'
    BY <1>7, <1>17 DEF ImportNow, Steady, Served
  <2> QED
    BY <1>10, <1>11, <1>17, <2>1 DEF ImportNow
<1>18. CASE ImportRefused(p)
  BY <1>11, <1>12, <1>18 DEF ImportRefused, contest
<1>19. CASE ImportWaits(p)
  <2>1. /\ pending' = p.id /\ imported' = imported /\ request[p.id] = "import"
        /\ clients' = [clients EXCEPT ![Asking].st = "packet", ![Asking].marked = TRUE]
    BY <1>9, <1>19 DEF ImportWaits
  <2>2. PICK c : c = [p EXCEPT !.st = "packet", !.marked = TRUE]
    OBVIOUS
  <2>3. c.id = p.id /\ c.fd = p.fd /\ c.st = "packet" /\ c.marked = TRUE
    BY <1>4, <2>2 DEF AnyClient
  <2>4. clients' = [clients EXCEPT ![a] = c]
    BY <1>3, <2>1, <2>2
  <2>5. Range(clients') = (Range(clients) \ {p}) \cup {c}
    BY <1>3, <2>3, <2>4, SwapRange
  <2>6. Steady /\ Fit(c, got, answer, output)
    BY <1>7, <2>1, <2>3 DEF Steady, Fit
  <2> QED
    BY <1>4, <1>5, <1>7, <2>3, <2>5, <2>6, ServedMove
<1> QED
  BY <1>1, <1>13, <1>14, <1>15, <1>16, <1>17, <1>18, <1>19 DEF Command

\* When all is read, written and executed, everybody has been served.
LEMMA AllDone ==
    ASSUME Known, Ended, Leaving = 0
    PROVE  \A d \in Range(clients) : d.st \notin {"ready", "disconnect"}
<1>1. clients \in Seq(AnyClient)
  BY DEF Known, Separate
<1>2. \A k \in DOMAIN clients : clients[k].st \notin {"ready", "disconnect"}
  BY <1>1, AskingIs, LeavingIs DEF Ended
<1> QED
  BY <1>1, <1>2, InRange

LEMMA ServedImport ==
    ASSUME Known, Owners, Served, LoopImport
    PROVE  Served'
<1>1. /\ pending # None /\ clients \in Seq(AnyClient) /\ pending' = None
      /\ UNCHANGED <<got, answer, output, request, cgi, cut>>
      /\ imported' = imported \cup {pending}
  BY DEF LoopImport, LoopEnd, program, Known, Separate
<1>2. PICK k : k = ById(pending) /\ k \in DOMAIN clients /\ clients[k].id = pending
  BY <1>1, ByIdIs DEF LoopImport
<1>3. clients[k].id # None /\ clients[k].marked
  BY <1>1, <1>2 DEF Known, ImportOfClient
<1>4. clients[k].out # 0
  <2>1. Stage(clients[k], got[clients[k].id])
    BY <1>2, <1>3, OwnerIs DEF StepOf
  <2> QED
    BY <1>3, <2>1 DEF Stage
<1>5. PICK p : p = clients[k] /\ p \in Range(clients)
  BY <1>2, OwnerIs
<1>6. /\ request[p.id] = "import" /\ p.id \in imported' /\ Steady
  BY <1>1, <1>2, <1>5 DEF Served, Steady
<1>7. \A d \in Range(clients) : d.st \notin {"ready", "disconnect"}
  BY AllDone DEF LoopImport, LoopEnd, PassEnds
<1>8. CASE clients' = Unmarked(PageOf(k))
  <2>1. clients' = <<ThePage(clients[k])>>
                      \o [clients EXCEPT ![k] = Done(clients[k], "ok")]
    BY <1>1, <1>2, <1>8, UnmarkedIs
  <2>2. AnsweredPage(clients[k], Range(clients), Range(clients'))
    BY <1>2, <1>3, <1>4, <2>1, PageRange
  <2> QED
    BY <1>3, <1>5, <1>6, <1>7, <2>2, ServedPage
<1>9. CASE clients' = Unmarked(Bare(k, "ok"))
  <2>1. clients' = [clients EXCEPT ![k] = Done(clients[k], "ok")]
    BY <1>1, <1>2, <1>9, UnmarkedIs
  <2>2. PICK r \in {"ok", "error"} : r = "ok"
    OBVIOUS
  <2>3. clients' = [clients EXCEPT ![k] = Done(clients[k], r)]
    BY <2>1, <2>2
  <2>4. Answered(clients[k], r, Range(clients), Range(clients'))
    BY <1>2, <1>3, <2>3, BareRange
  <2>5. r = "ok" => /\ request[p.id] # "submit"
                    /\ request[p.id] = "import" => p.id \in imported'
    BY <1>6
  <2> QED
    BY <1>3, <1>5, <1>6, <1>7, <2>4, <2>5, ServedAnswer
<1> QED
  BY <1>2, <1>8, <1>9 DEF LoopImport

LEMMA ServedLoop ==
    ASSUME Known, Served, LoopRead \/ LoopAbandon
    PROVE  Served'
<1>1. /\ UNCHANGED <<clients, got, answer, output, request, cgi, cut, imported>>
      /\ pending' = pending \/ pending' = None
  BY DEF LoopRead, LoopAbandon, LoopEnd, program
<1>2. \A d \in Range(clients) : d.st \notin {"ready", "disconnect"}
  BY AllDone DEF LoopRead, LoopAbandon, LoopEnd, PassEnds
<1> QED
  BY <1>1, <1>2 DEF Served, Promise, RepliedOk, PageOn

\* A client comes, or is gone.
LEMMA ServedSelect ==
    ASSUME Known, Owners, Served, Select
    PROVE  Served'
<1>1. /\ phase' = "pass"
      /\ UNCHANGED <<got, answer, output, request, cgi, cut, imported, pending>>
  BY DEF Select, contest
<1>2. CASE UNCHANGED clients
  BY <1>1, <1>2, ServedSame
<1>3. ASSUME NEW i \in backlog, NEW f, clients' = <<NewClient(i, f)>> \o clients
      PROVE  Served'
  <2>1. PICK c : c = NewClient(i, f)
    OBVIOUS
  <2>2. c.id = i /\ c.st = "creds"
    BY <2>1 DEF NewClient
  <2>3. Owners'
    BY OwnersNext DEF Next, Server
  <2>4. Range(clients') = Range(clients) \cup {c}
    <3>1. clients \in Seq(AnyClient) /\ clients' \in Seq(AnyClient)
      BY <2>3 DEF Owners, Listed
    <3>2. clients' = <<c>> \o clients
      BY <1>3, <2>1
    <3>3. /\ DOMAIN clients' = 1 .. Len(clients) + 1 /\ Len(clients) \in Nat
          /\ DOMAIN clients = 1 .. Len(clients)
      BY <3>1, <3>2
    <3>4. ASSUME NEW j \in 1 .. Len(clients) + 1
          PROVE  clients'[j] = IF j = 1 THEN c ELSE clients[j - 1]
      BY <3>1, <3>2
    <3>5. \A j \in DOMAIN clients : j + 1 \in DOMAIN clients' /\ clients'[j + 1] = clients[j]
      BY <3>3, <3>4
    <3>6. 1 \in DOMAIN clients' /\ clients'[1] = c
      BY <3>3, <3>4
    <3>7. \A j \in DOMAIN clients' : j = 1 \/ j - 1 \in DOMAIN clients
      BY <3>3
    <3>8. ASSUME NEW x \in Range(clients') PROVE x \in Range(clients) \cup {c}
      <4>1. PICK j \in DOMAIN clients' : x = clients'[j]
        BY <3>8 DEF Range
      <4> QED
        BY <3>3, <3>4, <3>7, <4>1 DEF Range
    <3>9. ASSUME NEW x \in Range(clients) \cup {c} PROVE x \in Range(clients')
      BY <3>5, <3>6, <3>9 DEF Range
    <3> QED
      BY <3>8, <3>9
  <2>5. Fit(c, got, answer, output)
    BY <2>2 DEF Fit
  <2>6. \A d \in Range(clients') : Fit(d, got', answer', output')
    BY <1>1, <2>4, <2>5 DEF Served
  <2>7. ASSUME NEW j \in Cgis PROVE Promise(j)'
    <3>1. RepliedOk(j)' => RepliedOk(j)
      BY <1>1, <2>2, <2>4 DEF RepliedOk
    <3>2. PageOn(j) => PageOn(j)'
      BY <2>4 DEF PageOn
    <3>3. Promise(j)
      BY <2>7 DEF Served
    <3> QED
      BY <1>1, <3>1, <3>2, <3>3, PromiseKept
  <2> QED
    BY <1>1, <2>6, <2>7 DEF Served
<1> QED
  BY <1>2, <1>3 DEF Select

LEMMA ServedDisconnect ==
    ASSUME Known, Owners, Served, Leaving # 0, Disconnect(Leaving),
           imported' = imported, pending' = pending \/ pending' = None,
           Ended
    PROVE  Served'
<1>1. PICK k : k = Leaving
  OBVIOUS
<1>2. k \in DOMAIN clients /\ clients[k].st = "disconnect"
  BY <1>1, LeavingIs DEF Known, Separate
<1>3. PICK p : p = clients[k] /\ p.st = "disconnect"
  BY <1>2
<1>4. /\ UNCHANGED <<phase, got, answer, output, request, cgi, cut>>
      /\ clients' = RemoveAt(clients, k) /\ phase = "pass"
  BY <1>1 DEF Disconnect, program, Ended
<1>5. Range(clients') = Range(clients) \ {p}
  <2>1. clients \in Seq(AnyClient) /\ IsInjective(clients) /\ Separate(clients)
    BY DEF Owners, Listed, Known
  <2> QED
    BY <1>2, <1>3, <1>4, <2>1, RemovedRange
<1>6. ASSUME NEW j \in Cgis PROVE Promise(j)'
  <2>1. RepliedOk(j)' => RepliedOk(j)
    BY <1>4, <1>5 DEF RepliedOk
  <2>2. PageOn(j) => PageOn(j)'
    BY <1>3, <1>5 DEF PageOn
  <2>3. Promise(j)
    BY <1>6 DEF Served
  <2> QED
    BY <1>4, <2>1, <2>2, <2>3, PromiseKept
<1> QED
  BY <1>4, <1>5, <1>6 DEF Served

LEMMA ServedStop ==
    ASSUME Known, Owners, Served, Stop
    PROVE  Served'
<1>1. /\ clients' = <<>> /\ Range(clients') = {} /\ pending' = None /\ phase' = "pass"
      /\ UNCHANGED <<got, answer, output, request, cgi, imported>>
      /\ cut' = cut \cup {clients[k].text : k \in
                  {l \in DOMAIN clients : clients[l].st = "writeclose"}}
  BY DEF Stop, Range
<1>2. ASSUME NEW j \in Cgis PROVE Promise(j)'
  <2>1. RepliedOk(j)' => RepliedOk(j)
    BY <1>1 DEF RepliedOk
  <2>2. PageOn(j) => j \in cut'
    BY <1>1, InRange DEF PageOn, Known, Separate
  <2>3. Promise(j) /\ (j \in cut => j \in cut')
    BY <1>1, <1>2 DEF Served
  <2> QED
    BY <1>1, <2>1, <2>2, <2>3, PromiseKept
<1> QED
  BY <1>1, <1>2 DEF Served

LEMMA ServedConnect ==
    ASSUME Known, Owners, Served, NEW i \in Cgis, NEW r \in Requests, Connect(i, r)
    PROVE  Served'
<1>1. /\ cgi[i] = "idle" /\ cgi' = [cgi EXCEPT ![i] = "asks"]
      /\ request' = [request EXCEPT ![i] = r]
      /\ UNCHANGED <<phase, clients, got, answer, output, cut, imported, pending>>
  BY DEF Connect, contest
<1>2. cgi'[i] = "asks" /\ \A j \in Cgis : j # i => cgi'[j] = cgi[j]
  BY <1>1 DEF Known
<1>3. DOMAIN request' = Cgis /\ \A j \in Cgis : j # i => request'[j] = request[j]
  BY <1>1 DEF Served
<1>4. pending # i
  BY <1>1 DEF Known
<1>5. \A c \in Range(clients) : c.id # i
  BY <1>1, InRange, ConnectionsAssumption DEF Known, Arrived, Separate
<1>6. ~RepliedOk(i)'
  BY <1>1, <1>2, <1>5, NoneAssumption DEF RepliedOk, Served
<1>7. ASSUME NEW j \in Cgis PROVE Promise(j)'
  <2>1. CASE j = i
    BY <1>2, <1>6, <2>1 DEF Promise
  <2>2. CASE j # i
    <3>1. RepliedOk(j)' => RepliedOk(j)
      BY <1>1, <1>2, <2>2 DEF RepliedOk
    <3>2. PageOn(j) => PageOn(j)'
      BY <1>1 DEF PageOn
    <3>3. Promise(j)
      BY <1>7 DEF Served
    <3> QED
      BY <1>1, <1>2, <1>3, <2>2, <3>1, <3>2, <3>3, PromiseKept
  <2> QED
    BY <2>1, <2>2
<1>8. \A j \in Cgis : cgi'[j] = "idle" => answer'[j] = None
  BY <1>1, <1>2 DEF Served
<1>9. pending' # None => request'[pending'] = "import"
  BY <1>1, <1>3, <1>4 DEF Served, Known
<1> QED
  BY <1>1, <1>3, <1>7, <1>8, <1>9 DEF Served

\* The end of the pipe comes after the page.
LEMMA ServedEnd ==
    ASSUME Known, Owners, Served, NEW i \in Cgis, Fail(i) \/ Succeed(i) \/ Kill(i)
    PROVE  Served'
<1>1. PICK st \in {"failed", "ok", "killed"} :
          /\ cgi' = [cgi EXCEPT ![i] = st]
          /\ st = "ok" => answer[i] = "ok" /\ ~Open(Wait(i))
  BY DEF Fail, Succeed, Kill
<1>2. UNCHANGED <<phase, clients, request, got, answer, output, cut, imported, pending>>
  BY DEF Fail, Succeed, Kill, contest
<1>3. cgi'[i] = st /\ \A j \in Cgis : j # i => cgi'[j] = cgi[j]
  BY <1>1 DEF Known
<1>4. PageOn(i) => Open(Wait(i))
  <2>1. \A c \in Range(clients) : Sound(c, table)
    BY DEF Owners, Listed, Owned
  <2> QED
    BY <2>1 DEF PageOn, Sound, Open
<1>5. ASSUME NEW j \in Cgis PROVE Promise(j)'
  <2>1. Promise(j)
    BY <1>5 DEF Served
  <2>2. PageOn(j) => PageOn(j)'
    BY <1>2 DEF PageOn
  <2>3. RepliedOk(j)' => RepliedOk(j)
    BY <1>1, <1>2, <1>3 DEF RepliedOk
  <2>4. CASE cgi'[j] = "ok" => cgi[j] = "ok"
    BY <1>2, <2>1, <2>2, <2>3, <2>4, PromiseKept
  <2>5. CASE j = i /\ st = "ok"
    <3>1. RepliedOk(j) /\ ~PageOn(j)
      BY <1>1, <1>4, <2>5 DEF RepliedOk
    <3> QED
      BY <1>2, <2>1, <3>1 DEF Promise
  <2> QED
    BY <1>3, <2>4, <2>5
<1>6. \A j \in Cgis : cgi'[j] = "idle" => answer'[j] = None
  BY <1>2, <1>3 DEF Served
<1> QED
  BY <1>2, <1>5, <1>6 DEF Served

LEMMA ServedInit == Init => Served
<1> SUFFICES ASSUME Init PROVE Served
  OBVIOUS
<1>1. /\ clients = <<>> /\ Range(clients) = {} /\ pending = None /\ phase = "pass"
      /\ request = [i \in Cgis |-> None] /\ cgi = [i \in Cgis |-> "idle"]
      /\ answer = [i \in Cgis |-> None] /\ output = [i \in Cgis |-> None]
  BY DEF Init, Range
<1>2. answer \in Answers
  BY <1>1 DEF Answers
<1>3. ASSUME NEW i \in Cgis PROVE Promise(i)
  <2>1. ~RepliedOk(i)
    BY <1>1, NoneAssumption DEF RepliedOk
  <2> QED
    BY <1>1, <2>1 DEF Promise
<1> QED
  BY <1>1, <1>2, <1>3 DEF Served

LEMMA ServedNext == Known /\ Owners /\ Served /\ [Next]_vars => Served'
<1> SUFFICES ASSUME Known, Owners, Served, [Next]_vars PROVE Served'
  OBVIOUS
<1>1. CASE LoopRead \/ LoopAbandon
  BY <1>1, ServedLoop
<1>2. CASE LoopImport
  BY <1>2, ServedImport
<1>3. CASE Select
  BY <1>3, ServedSelect
<1>4. ASSUME NEW k \in DOMAIN clients, Command(clients[k]) PROVE Served'
  BY <1>4, ServedCommand
<1>5. ASSUME NEW k \in DOMAIN clients, NEW i \in Cgis, InOut(clients[k], i)
      PROVE  Served'
  BY <1>5, ServedInOut
<1>6. CASE Delete \/ DeleteMarked \/ DeleteForgotten
  BY <1>6, ServedDisconnect DEF Delete, DeleteMarked, DeleteForgotten, contest
<1>7. CASE Stop
  BY <1>7, ServedStop
<1>8. ASSUME NEW i \in Cgis, NEW r \in Requests, Connect(i, r) PROVE Served'
  BY <1>8, ServedConnect
<1>9. ASSUME NEW i \in Cgis, Send(i) PROVE Served'
  BY <1>9, ServedSame DEF Send, contest
<1>10. ASSUME NEW i \in Cgis, Fail(i) \/ Succeed(i) \/ Kill(i) PROVE Served'
  BY <1>10, ServedEnd
<1>11. CASE UlDown
  BY <1>11, ServedSame DEF UlDown, program, contest
<1>12. CASE UNCHANGED vars
  BY <1>12, ServedSame DEF vars, program, contest
<1> QED
  BY <1>1, <1>2, <1>3, <1>4, <1>5, <1>6, <1>7, <1>8, <1>9, <1>10, <1>11, <1>12
     DEF Next, Server, Program

LEMMA ServedHolds == Spec => [](Known /\ Owners /\ Served)
<1>1. Init => Known /\ Owners /\ Served
  BY KnownInit, OwnersInit, ServedInit
<1>2. Known /\ Owners /\ Served /\ [Next]_vars => (Known /\ Owners /\ Served)'
  BY KnownNext, OwnersNext, ServedNext
<1> QED
  BY <1>1, <1>2, PTL DEF Spec

LEMMA ServedPages == Served => PageOfRequest
<1> SUFFICES ASSUME Served, NEW i \in Cgis
             PROVE  /\ output[i] \in {i, None}
                    /\ cgi[i] = "ok" =>
                          /\ request[i] = "submit" => output[i] = i \/ i \in cut
                          /\ request[i] = "import" => i \in imported
  BY DEF PageOfRequest
<1>1. Promise(i) /\ output[i] \in {i, None}
  BY DEF Served
<1>2. cgi[i] = "ok" => RepliedOk(i)
  BY DEF RepliedOk
<1> QED
  BY <1>1, <1>2 DEF Promise

\* A client between two passes waits for its request, its import or nothing.
LEMMA ServedRemembered == Known /\ Owners /\ Served => NobodyForgotten
<1> SUFFICES ASSUME Known, Owners, Served, Sleeps, backlog = {}, Readers = {},
                    Writers = {}, NEW i \in Cgis, cgi[i] = "asks",
                    sent[i] = Len(Script), Open(Conn(i)), pending # i
             PROVE  answer[i] = "error" \/ (answer[i] = "ok" /\ ~Open(Wait(i)))
  BY DEF NobodyForgotten
<1>1. /\ Owned(Range(clients), table, ul) /\ clients \in Seq(AnyClient)
      /\ Opens(table, Conn(i))
  BY DEF Owners, Listed, Open, Opens
<1>2. PICK c \in Range(clients) : c.id = i
  BY <1>1, OwnerOf
<1>3. PICK k \in DOMAIN clients : c = clients[k]
  BY <1>1, InRange
<1>4. /\ Sound(c, table) /\ c.st \in ClientStates /\ c.id # None /\ c.fd \in Fds
      /\ table[c.fd] = Conn(i)
  BY <1>1, <1>2, <1>3, ClientIs DEF Owned, Sound, AnyClient
<1>5. \A d \in Range(clients) : d.st \notin {"ready", "disconnect"} /\ d.st \notin Writing
  <2>1. ASSUME NEW d \in Range(clients) PROVE d.st \notin Writing
    <3>1. PICK j \in DOMAIN clients : d = clients[j]
      BY <1>1, <2>1, InRange
    <3>2. d.fd \in Fds
      BY <1>1, <2>1 DEF Owned, Sound
    <3> QED
      BY <3>1, <3>2 DEF Writers
  <2> QED
    BY <2>1 DEF Served, Sleeps
<1>6. c.st \in Reading
  BY <1>4, <1>5 DEF ClientStates
<1>7. ~HasInput(i)
  BY <1>2, <1>3, <1>4, <1>6 DEF Readers
<1>8. got[i] = 4
  <2>1. got[i] \in 0 .. 4 /\ sent[i] = 4
    BY DEF Owners, Paced, Script
  <2> QED
    BY <1>7, <2>1 DEF HasInput
<1>9. ~c.marked
  BY <1>2, <1>3, <1>4 DEF Known, ImportOfClient
<1>10. c.st = "packet" /\ c.out = 0
  <2>1. Stage(c, 4)
    BY <1>2, <1>3, <1>4, <1>8, OwnerIs DEF StepOf
  <2> QED
    BY <1>6, <1>9, <2>1 DEF Stage, Reading
<1>11. answer[i] \in {"ok", "error"}
  BY <1>2, <1>4, <1>8, <1>9, <1>10 DEF Served, Fit
<1>12. ~Open(Wait(i))
  <2> SUFFICES ASSUME Opens(table, Wait(i)) PROVE FALSE
    BY DEF Open, Opens
  <2>1. PICK d \in Range(clients) : Holds(d) = i
    BY <1>1, OwnerOf
  <2>2. CASE d.id # None
    <3>1. d = c
      BY <1>1, <1>2, <2>1, <2>2, ConnectionsAssumption DEF Holds, Owned, Alone
    <3> QED
      BY <1>10, <2>1, <2>2, <3>1, ConnectionsAssumption DEF Holds
  <2>3. CASE d.id = None
    <3>1. d.st \in PageStates
      BY <1>1, <2>3, InRange DEF Known, Separate
    <3> QED
      BY <1>5, <3>1 DEF PageStates, Writing
  <2> QED
    BY <2>2, <2>3
<1> QED
  BY <1>11, <1>12

-----------------------------------------------------------------------------
(* Types                                                                   *)

\* What the other invariants leave of TypeOK: a connection that is down is
\* open, and the runs under way and those that are held are within the bound.
Typed ==
    /\ phase \in Phases /\ rset \subseteq Fds /\ wset \subseteq Fds
    /\ ulDown \in BOOLEAN /\ (ulDown => ul # 0)
    /\ cgi \in [Cgis -> {"idle", "asks"} \cup Over]
    /\ request \in [Cgis -> Requests \cup {None}]
    /\ output \in [Cgis -> Cgis \cup {None}]
    /\ transient \in Nat /\ held \in Nat /\ transient + held <= MaxRuns
    /\ imported \subseteq Cgis /\ cut \subseteq Cgis
    /\ faults \in 0 .. MaxFaults

LEMMA TypedInit == Init => Typed
<1> SUFFICES ASSUME Init PROVE Typed
  OBVIOUS
<1>1. transient \in 0 .. MaxRuns - 1 /\ held = 0
  BY DEF Init
<1>2. transient \in Nat /\ transient + held <= MaxRuns
  BY <1>1
<1>3. faults \in 0 .. MaxFaults
  BY DEF Init
<1>4. /\ cgi \in [Cgis -> {"idle", "asks"} \cup Over]
      /\ request \in [Cgis -> Requests \cup {None}]
      /\ output \in [Cgis -> Cgis \cup {None}]
  BY DEF Init
<1>5. /\ phase = "pass" /\ rset = {} /\ wset = {} /\ ulDown = FALSE
      /\ imported = {} /\ cut = {} /\ held = 0
  BY DEF Init
<1> QED
  BY <1>2, <1>3, <1>4, <1>5 DEF Typed, Phases

\* The page of a request that is written, or cut off
LEMMA PageText ==
    ASSUME Known, Owners, NEW k \in DOMAIN clients, clients[k].st = "writeclose"
    PROVE  clients[k].text \in Cgis
<1>1. Sound(clients[k], table) /\ StepOf(clients[k], got)
  BY OwnerIs
<1> QED
  BY <1>1 DEF Sound, StepOf, Stage

LEMMA AskerIs ==
    ASSUME Known, NEW part, NEW p, Handle(p, part)
    PROVE  p.id \in Cgis
<1>1. PICK a : a = Asking /\ a \in DOMAIN clients /\ p = clients[a] /\ p.st = "ready"
  BY AskingIs DEF Handle, Known, Separate
<1> QED
  BY <1>1, ClientIs DEF PageStates

LEMMA TypedCommand ==
    ASSUME Known, Owners, Typed, NEW p, Command(p)
    PROVE  Typed'
<1>1. PICK part \in {"pass", "request"} : Handle(p, part)
  BY DEF Command, PassFd, Submit, TestSuspend, TestResume, Suspension, Refuse,
         ImportNow, ImportRefused, ImportWaits, Request
<1>2. UNCHANGED <<phase, rset, wset, cgi, request, output, cut, faults>> /\ p.id \in Cgis
  BY <1>1, AskerIs DEF Handle, program
<1>3. Lowest(table) # 0 \/ ul # 0
  <2>1. CASE ul = 0
    <3>1. Owned(Range(clients), table, ul) /\ table \in Tables /\ Single(table)
      BY DEF Owners, Listed, Owned
    <3>2. PICK i \in Cgis : i = p.id
      BY <1>2
    <3>3. ~Opens(table, UserList) /\ UserList \in Objects
      BY <2>1, <3>1, <3>2, OwnerOf, ObjectsOf
    <3>4. Lowest(table) \in Fds
      BY <3>1, <3>3, FreeNumber
    <3> QED
      BY <3>4, FdsNotZero
  <2> QED
    BY <2>1
<1>4. ulDown' = ulDown /\ (ulDown' => ul' # 0)
  <2>1. ulDown' = ulDown
    BY DEF Command, PassFd, Submit, TestSuspend, TestResume, Suspension, Refuse,
       ImportNow, ImportRefused, ImportWaits, Request
  <2>2. ul' = ul \/ ul' = UlNow
    BY DEF Command, PassFd, Submit, TestSuspend, TestResume, Suspension, Refuse,
       ImportNow, ImportRefused, ImportWaits, Request
  <2>3. ul' = ul \/ ul' # 0
    BY <1>3, <2>2 DEF UlNow
  <2> QED
    BY <2>1, <2>3 DEF Typed
<1>5. imported' \subseteq Cgis
  BY <1>2 DEF Typed, Command, PassFd, Submit, TestSuspend, TestResume, Suspension,
     Refuse, ImportNow, ImportRefused, ImportWaits, contest
<1>6. transient' \in Nat /\ held' \in Nat /\ transient' + held' <= MaxRuns
  <2>1. CASE Submit(p)
    BY <2>1 DEF Typed, Submit
  <2>2. CASE ~Submit(p)
    <3>1. UNCHANGED <<transient, held>>
      BY <2>2 DEF Command, PassFd, TestSuspend, TestResume, Suspension,
         Refuse, ImportNow, ImportRefused, ImportWaits, contest
    <3> QED
      BY <3>1 DEF Typed
  <2> QED
    BY <2>1, <2>2
<1> QED
  BY <1>2, <1>4, <1>5, <1>6 DEF Typed

LEMMA TypedInOut ==
    ASSUME Known, Owners, Typed, NEW k \in DOMAIN clients, NEW i \in Cgis,
           InOut(clients[k], i)
    PROVE  Typed'
<1>1. /\ UNCHANGED <<phase, ul, ulDown, cgi, request, transient, held, imported, cut,
                     faults>>
      /\ rset' \subseteq Fds /\ wset' \subseteq Fds
  BY DEF InOut, Read, ReadNothing, WriteReply, WritePage, Io, program, contest, Typed
<1>2. output' \in [Cgis -> Cgis \cup {None}]
  <2>1. CASE WritePage(clients[k], i)
    <3>1. clients[k].text \in Cgis /\ output' = [output EXCEPT ![i] = clients[k].text]
      BY <2>1, PageText DEF WritePage
    <3> QED
      BY <3>1 DEF Typed
  <2>2. CASE ~WritePage(clients[k], i)
    BY <2>2 DEF InOut, Read, ReadNothing, WriteReply, Typed
  <2> QED
    BY <2>1, <2>2
<1> QED
  BY <1>1, <1>2 DEF Typed

LEMMA TypedSelect ==
    ASSUME Known, Owners, Typed, Select
    PROVE  Typed'
<1>1. /\ phase' = "pass" /\ ulDown' = FALSE
      /\ UNCHANGED <<cgi, request, output, transient, held, imported, cut, faults>>
  BY DEF Select, contest
<1>2. Closing \subseteq Fds
  BY DEF Closing, Typed, Owners, Listed, Owned
<1>3. rset' \subseteq Fds
  BY <1>2 DEF Select, Readers
<1>4. wset' \subseteq Fds
  BY DEF Select, Writers
<1> QED
  BY <1>1, <1>3, <1>4 DEF Typed, Phases

\* Testing is restored.
LEMMA TypedRestored ==
    ASSUME Typed, Restored \/ UNCHANGED <<transient, held>>
    PROVE  transient' \in Nat /\ held' \in Nat /\ transient' + held' <= MaxRuns
BY DEF Typed, Restored

LEMMA TypedNext == Known /\ Owners /\ Typed /\ [Next]_vars => Typed'
<1> SUFFICES ASSUME Known, Owners, Typed, [Next]_vars PROVE Typed'
  OBVIOUS
<1>1. CASE LoopRead
  <2>1. /\ phase' = "select" /\ rset' = {} /\ wset' = {}
        /\ UNCHANGED <<ul, ulDown, cgi, request, output, held, imported, cut, faults>>
    BY <1>1 DEF LoopRead, PassEnds, program
  <2>2. transient' \in Nat /\ transient' + held <= MaxRuns
    <3>1. transient' \in 0 .. transient
      BY <1>1 DEF LoopRead
    <3>2. transient \in Nat /\ held \in Nat /\ transient + held <= MaxRuns
      BY DEF Typed
    <3>3. PICK n, t, h, m : n = transient' /\ t = transient /\ h = held /\ m = MaxRuns
      OBVIOUS
    <3>4. /\ n \in 0 .. t /\ t \in Nat /\ h \in Nat /\ m \in Nat
          /\ t + h <= m
      BY <3>1, <3>2, <3>3
    <3>5. n \in Nat /\ n + h <= m
      BY <3>4
    <3> QED
      BY <3>3, <3>5
  <2> QED
    BY <2>1, <2>2 DEF Typed, Phases
<1>2. CASE LoopImport \/ LoopAbandon
  <2>1. /\ phase' = "select" /\ rset' = {} /\ wset' = {}
        /\ UNCHANGED <<ul, ulDown, cgi, request, output, cut, faults>>
    BY <1>2 DEF LoopImport, LoopAbandon, LoopEnd, PassEnds, program
  <2>2. transient' \in Nat /\ held' \in Nat /\ transient' + held' <= MaxRuns
    BY <1>2 DEF LoopImport, LoopAbandon, LoopEnd, Typed
  <2>3. imported' \subseteq Cgis
    BY <1>2 DEF LoopImport, LoopAbandon, LoopEnd, Typed, Known
  <2> QED
    BY <2>1, <2>2, <2>3 DEF Typed, Phases
<1>3. CASE Select
  BY <1>3, TypedSelect
<1>4. ASSUME NEW k \in DOMAIN clients, Command(clients[k]) PROVE Typed'
  BY <1>4, TypedCommand
<1>5. ASSUME NEW k \in DOMAIN clients, NEW i \in Cgis, InOut(clients[k], i)
      PROVE  Typed'
  BY <1>5, TypedInOut
<1>6. CASE Delete \/ DeleteMarked \/ DeleteForgotten
  <2>1. UNCHANGED <<phase, ul, ulDown, rset, wset, cgi, request, output, imported,
                    cut, faults>>
    BY <1>6 DEF Delete, DeleteMarked, DeleteForgotten, Disconnect, program, contest
  <2>2. Restored \/ UNCHANGED <<transient, held>>
    BY <1>6 DEF Delete, DeleteMarked, DeleteForgotten, contest
  <2> QED
    BY <2>1, <2>2, TypedRestored DEF Typed
<1>7. CASE Stop
  <2>1. /\ phase' = "pass" /\ ulDown' = FALSE /\ faults < MaxFaults /\ faults' = faults + 1
        /\ UNCHANGED <<rset, wset, cgi, request, output, imported>>
    BY <1>7 DEF Stop
  <2>2. Restored \/ UNCHANGED <<transient, held>>
    BY <1>7 DEF Stop, Unloaded
  <2>3. cut' \subseteq Cgis
    BY <1>7, PageText DEF Stop, Typed
  <2>4. faults' \in 0 .. MaxFaults
    BY <2>1 DEF Typed
  <2> QED
    BY <2>1, <2>2, <2>3, <2>4, TypedRestored DEF Typed, Phases
<1>8. ASSUME NEW i \in Cgis, NEW r \in Requests, Connect(i, r) PROVE Typed'
  BY <1>8 DEF Connect, Typed, contest
<1>9. ASSUME NEW i \in Cgis, Send(i) PROVE Typed'
  BY <1>9 DEF Send, Typed, contest
<1>10. ASSUME NEW i \in Cgis, Fail(i) \/ Succeed(i) \/ Kill(i) PROVE Typed'
  <2>1. PICK st \in Over : cgi' = [cgi EXCEPT ![i] = st]
    BY <1>10 DEF Fail, Succeed, Kill, Over
  <2>2. cgi' \in [Cgis -> {"idle", "asks"} \cup Over]
    BY <2>1 DEF Typed
  <2>3. UNCHANGED <<phase, ul, ulDown, rset, wset, request, output, transient, held,
                    imported, cut>>
    BY <1>10 DEF Fail, Succeed, Kill, contest
  <2>4. faults' \in 0 .. MaxFaults
    BY <1>10 DEF Fail, Succeed, Kill, Typed
  <2> QED
    BY <2>2, <2>3, <2>4 DEF Typed
<1>11. CASE UlDown
  <2>1. UNCHANGED <<phase, ul, rset, wset, cgi, request, output, transient, held,
                    imported, cut>>
        /\ ulDown' = TRUE /\ ul # 0
    BY <1>11 DEF UlDown, program, contest
  <2>2. faults' \in 0 .. MaxFaults
    BY <1>11 DEF UlDown, Typed
  <2> QED
    BY <2>1, <2>2 DEF Typed
<1>12. CASE UNCHANGED vars
  BY <1>12 DEF vars, program, contest, Typed
<1> QED
  BY <1>1, <1>2, <1>3, <1>4, <1>5, <1>6, <1>7, <1>8, <1>9, <1>10, <1>11, <1>12
     DEF Next, Server, Program

LEMMA TypedHolds == Spec => [](Known /\ Owners /\ Typed)
<1>1. Init => Known /\ Owners /\ Typed
  BY KnownInit, OwnersInit, TypedInit
<1>2. Known /\ Owners /\ Typed /\ [Next]_vars => (Known /\ Owners /\ Typed)'
  BY KnownNext, OwnersNext, TypedNext
<1> QED
  BY <1>1, <1>2, PTL DEF Spec

LEMMA TypesFollow ==
    Known /\ Restorable /\ Owners /\ Served /\ Typed => TypeOK
<1> SUFFICES ASSUME Known, Restorable, Owners, Served, Typed PROVE TypeOK
  OBVIOUS
<1>1. clients \in Seq(Client)
  <2>1. ASSUME NEW k \in DOMAIN clients PROVE clients[k] \in Client
    <3>1. PICK p : p = clients[k]
      OBVIOUS
    <3>2. p \in AnyClient /\ Sound(p, table)
      BY <3>1, OwnerIs
    <3>3. p.fd \in Fds /\ p.out \in Fds \cup {0} /\ p.wait \in Fds \cup {0}
      BY <3>2 DEF Sound
    <3>4. p = [id |-> p.id, fd |-> p.fd, out |-> p.out, wait |-> p.wait, st |-> p.st,
               marked |-> p.marked, text |-> p.text]
      BY <3>2 DEF AnyClient
    <3>5. /\ p.id \in Cgis \cup {None} /\ p.st \in ClientStates /\ p.marked \in BOOLEAN
          /\ p.text \in Cgis \cup {None, "ok", "error"}
      BY <3>2 DEF AnyClient
    <3> QED
      BY <3>1, <3>3, <3>4, <3>5 DEF Client
  <2>2. clients \in Seq(AnyClient)
    BY DEF Known, Separate
  <2>3. Len(clients) \in Nat /\ clients \in [1 .. Len(clients) -> Client]
    BY <2>1, <2>2
  <2> QED
    BY <2>3, SeqDef
<1>2. table \in [Fds -> Objects \cup {None}] /\ backlog \subseteq Cgis
      /\ pending \in Cgis \cup {None}
  BY DEF Known, Tables, Arrived
<1>3. ul \in Fds \cup {0}
  BY DEF Owners, Listed, Owned
<1>4. /\ sent \in [Cgis -> Calls] /\ got \in [Cgis -> 0 .. Len(Script)]
      /\ \A i \in Cgis : got[i] <= sent[i]
  BY DEF Owners, Paced, Script
<1>5. answer \in [Cgis -> {None, "ok", "error"}]
  BY DEF Served, Answers
<1>6. suspended \in BOOLEAN /\ saved \in BOOLEAN /\ wish \in BOOLEAN /\ ordered \in BOOLEAN
  BY DEF Restorable
<1>7. transient \in 0 .. MaxRuns /\ held \in 0 .. MaxRuns
  BY DEF Typed
<1> QED
  BY <1>1, <1>2, <1>3, <1>4, <1>5, <1>6, <1>7 DEF Typed, TypeOK

-----------------------------------------------------------------------------
(* Theorems                                                                *)

\* Every variable keeps its type; among others, accept and the descriptors a
\* client passes always find a free number.
THEOREM TypeCorrect == Spec => []TypeOK
<1> QED
  BY InvHolds, ServedHolds, TypedHolds, TypesFollow, PTL

\* No descriptor is leaked, closed twice or kept by two clients, whatever the
\* order of requests, pages and disconnections (nsf_new_autoclose,
\* nsf_close_client_fds, client_state_delete).
THEOREM DescriptorsAreOwned == Spec => []DescriptorsOwned
<1> QED
  BY OwnersHold, OwnersCounted, PTL

\* A CGI program that ends well has its own page, complete, and its file is
\* imported, unless the server was stopped in between.
THEOREM PagesAreOwn == Spec => []PageOfRequest
<1> QED
  BY ServedHolds, ServedPages, PTL

\* Between two passes that have nothing to do, whoever has sent a request has
\* its reply and the end of its page, waits for an import or has no connection.
THEOREM NobodyIsForgotten == Spec => []NobodyForgotten
<1> QED
  BY ServedHolds, ServedRemembered, PTL
=============================================================================
